---- MODULE Spec2Model ----
(***************************************************************************)
(* A model of the lexical analyzer of yash-rs (yash-syntax/src/parser/lex.rs). *)
(*                                                                         *)
(* A character is a one-character string, a source text a sequence of      *)
(* characters.  The lexer is the pair (source, index): index is the        *)
(* 0-based cursor of Lexer::index(), so the next character is              *)
(* source[index + 1].  A Location is the index of the character it names.  *)
(* Each lexer function is an operator from (source, cursor, arguments) to  *)
(* a result record that carries the value, the new cursor and the error.   *)
(***************************************************************************)
EXTENDS Integers, Sequences, FiniteSets, TLC

VARIABLES
    source,   \* the Code being lexed (fully materialised, Lexer::with_source)
    index,    \* the lexer's cursor
    op,       \* the entry point called last ("init" for a fresh lexer)
    entry,    \* the cursor when that call was made
    arg,      \* the arguments of that call
    result    \* what that call returned

\* the fill stage (src/parser/fill.rs)
VARIABLES
    ast,        \* the partial AST, a Pipeline<MissingHereDoc>, or <<>>
    here_docs,  \* the items of the here-document iterator
    taken,      \* how many of them the iterator has yielded
    taken_before,  \* how many it had yielded when fill was called
    full        \* what Fill::fill returned

\* sources of code (yash-syntax/src/source.rs)
VARIABLES
    code_source,   \* the Source of the Code being parsed
    alias_name,    \* the name is_alias_for was last asked about
    alias_result   \* what it returned, or <<>>

\* the input function Stdin (yash-env/src/input.rs)
VARIABLES
    stdin,      \* the bytes of the standard input
    stdin_pos,  \* how many of them have been read
    echo,       \* Stdin::echo: "None", or the state "Off" or "On" of the cell
    stderr,     \* the bytes written to the standard error
    returned    \* what the calls of next_line returned, in order, each with
                \* the read position it left, the state the cell had after
                \* its read and the errno of the read the system failed

\* the wait built-in (yash-builtin/src/wait.rs)
VARIABLES
    jobs,         \* env.jobs: the status of the job of a process ID, or NoJob
    children,     \* the state of the child process of a process ID
    operands,     \* the operands of the built-in
    wait_pc,      \* where the built-in is
    operand,      \* the number of the operand wait_for_each_job is at
    exit_status,  \* the variable exit_status of wait_for_each_job
    wait_result,  \* the Result the built-in returned, or the panic message
    waits,        \* the calls of wait_for_subshell that have returned
    obtained,     \* for each operand done: the process ID, whether it had
                  \* a job, and the exit status obtained for it
    jobs_before   \* env.jobs when the built-in was called

\* Subshell (yash-env/src/subshell.rs)
VARIABLES
    monitor,       \* the Monitor option is on
    in_subshell,   \* env.stack holds a Frame::Subshell
    requested,     \* Subshell::job_control
    and_wait,      \* start_and_wait is called rather than start
    tty_exists,    \* /dev/tty can be opened
    env_tty,       \* env.tty
    actual,        \* the variable job_control of start
    sub_pc,        \* where the parent is in start or start_and_wait
    sub_result,    \* what start or start_and_wait returned
    child_pc,      \* where the child process is
    child_pgid,    \* the process group ID of the child process
    foreground,    \* the foreground process group of the tty, or 0
    child_report,  \* the state change of the child not yet waited for
    wait_status    \* the variable wait_status of start_and_wait

\* the conversions and apply_errexit of yash-env/src/semantics.rs
VARIABLES
    sem_op,        \* the function called
    sem_arg,       \* its argument
    sem_env,       \* the environment, or the build, it is called in
    sem_result     \* what it returned

lexerVars == <<source, index, op, entry, arg, result>>
fillVars == <<ast, here_docs, taken, taken_before, full>>
sourceVars == <<code_source, alias_name, alias_result>>
inputVars == <<stdin, stdin_pos, echo, stderr, returned>>
waitVars == <<jobs, children, operands, wait_pc, operand, exit_status,
              wait_result, waits, obtained, jobs_before>>
subshellVars == <<monitor, in_subshell, requested, and_wait, tty_exists,
                  env_tty, actual, sub_pc, sub_result, child_pc, child_pgid,
                  foreground, child_report, wait_status>>
semVars == <<sem_op, sem_arg, sem_env, sem_result>>
vars == <<lexerVars, fillVars, sourceVars, inputVars, waitVars, subshellVars,
          semVars>>

\* the parts of the program a specification leaves out stay as they are here
NoLexer ==
    /\ source = <<>>
    /\ index = 0
    /\ op = "init"
    /\ entry = 0
    /\ arg = <<>>
    /\ result = <<>>
NoFill ==
    /\ ast = <<>>
    /\ here_docs = <<>>
    /\ taken = 0
    /\ taken_before = 0
    /\ full = <<>>
NoSource ==
    /\ code_source = <<>>
    /\ alias_name = ""
    /\ alias_result = <<>>
NoInput ==
    /\ stdin = <<>>
    /\ stdin_pos = 0
    /\ echo = "None"
    /\ stderr = <<>>
    /\ returned = <<>>
NoWait ==
    /\ jobs = <<>>
    /\ children = <<>>
    /\ operands = <<>>
    /\ wait_pc = "idle"
    /\ operand = 0
    /\ exit_status = 0
    /\ wait_result = <<>>
    /\ waits = <<>>
    /\ obtained = <<>>
    /\ jobs_before = <<>>
NoSubshell ==
    /\ monitor = FALSE
    /\ in_subshell = FALSE
    /\ requested = "None"
    /\ and_wait = FALSE
    /\ tty_exists = FALSE
    /\ env_tty = "None"
    /\ actual = "None"
    /\ sub_pc = "idle"
    /\ sub_result = <<>>
    /\ child_pc = "idle"
    /\ child_pgid = 0
    /\ foreground = 0
    /\ child_report = "None"
    /\ wait_status = "None"
NoSem ==
    /\ sem_op = "idle"
    /\ sem_arg = <<>>
    /\ sem_env = <<>>
    /\ sem_result = <<>>
NoOther == NoSubshell /\ NoSem
OnlyLexer == NoFill /\ NoSource /\ NoInput /\ NoWait /\ NoOther
OnlyFill == NoLexer /\ NoSource /\ NoInput /\ NoWait /\ NoOther
OnlySource == NoLexer /\ NoFill /\ NoInput /\ NoWait /\ NoOther
OnlyInput == NoLexer /\ NoFill /\ NoSource /\ NoWait /\ NoOther
OnlyWait == NoLexer /\ NoFill /\ NoSource /\ NoInput /\ NoOther
OnlySubshell ==
    NoLexer /\ NoFill /\ NoSource /\ NoInput /\ NoWait /\ NoSem
OnlySem ==
    NoLexer /\ NoFill /\ NoSource /\ NoInput /\ NoWait /\ NoSubshell

(***************************************************************************)
(* Bounds of the model.                                                    *)
(***************************************************************************)
MaxLen == 4
MaxCommands == 2   \* the commands of a pipeline
MaxRedirs == 2     \* the redirections of a command
MaxHereDocs == 4   \* the items of the here-document iterator
MaxDepth == 3      \* the sources nested in a source
MaxInput == 3      \* the bytes of the standard input
MaxOperands == 2   \* the operands of the wait built-in
MaxCalls == 2      \* the calls of next_line

(***************************************************************************)
(* Characters.                                                             *)
(***************************************************************************)
EOF == "EOF"          \* peek_char's None
BS == "\\"
NL == "\n"
SQ == "'"
DQ == "\""
BQ == "backquote"   \* U+0060, which a TLA+ string cannot hold
DOLLAR == "$"
LPAREN == "("
RPAREN == ")"
DummyLocation == -1   \* Location::dummy, passed by a direct caller

Digits == {"0", "1", "2", "3", "4", "5", "6", "7", "8", "9"}

\* every sequence over A of length at most n
RECURSIVE StringsUpTo(_, _)
StringsUpTo(A, n) ==
    IF n = 0 THEN {<<>>}
    ELSE LET S == StringsUpTo(A, n - 1)
         IN  S \cup {Append(x, c) : x \in {y \in S : Len(y) = n - 1}, c \in A}

(***************************************************************************)
(* Results.                                                                *)
(***************************************************************************)
R_Ok(v, i) ==
    [t |-> "ok", v |-> v, i |-> i, cause |-> "", opening |-> 0, at |-> 0]
R_None(i) ==
    [t |-> "none", v |-> <<>>, i |-> i, cause |-> "", opening |-> 0, at |-> 0]
R_Unmatched(i, location) ==
    [t |-> "unmatched", v |-> <<>>, i |-> i, cause |-> "", opening |-> location, at |-> 0]
R_Err(cause, opening_location, location) ==
    [t |-> "err", v |-> <<>>, i |-> location, cause |-> cause,
     opening |-> opening_location, at |-> location]
R_Panic(i) ==
    [t |-> "panic", v |-> <<>>, i |-> i, cause |-> "unreachable", opening |-> 0, at |-> i]

(***************************************************************************)
(* Syntax: the units of texts and words.                                   *)
(***************************************************************************)
Literal(c) == [k |-> "Literal", c |-> c]
Backslashed(c) == [k |-> "Backslashed", c |-> c]
CommandSubst(content, location) ==
    [k |-> "CommandSubst", content |-> content, location |-> location]
Arith(content, location) ==
    [k |-> "Arith", content |-> content, location |-> location]
Backquote(content, location) ==
    [k |-> "Backquote", content |-> content, location |-> location]
Unquoted(u) == [k |-> "Unquoted", u |-> u]
SingleQuote(content) == [k |-> "SingleQuote", content |-> content]
DoubleQuote(content) == [k |-> "DoubleQuote", content |-> content]
Tilde(name) == [k |-> "Tilde", name |-> name]

(***************************************************************************)
(* The lexer's primitives.                                                 *)
(***************************************************************************)
Peek(s, i) == IF i < Len(s) THEN s[i + 1] ELSE EOF

RECURSIVE line_continuations(_, _)
line_continuations(s, i) ==
    IF Peek(s, i) = BS /\ Peek(s, i + 1) = NL
    THEN line_continuations(s, i + 2)
    ELSE i

Blanks == {" ", "\t"}
is_blank(c) == c \in Blanks

RECURSIVE skip_blanks(_, _)
skip_blanks(s, i) == IF is_blank(Peek(s, i)) THEN skip_blanks(s, i + 1) ELSE i

\* the line number and the column of the character at index i
LineOf(s, i) == 1 + Cardinality({p \in 1..i : s[p] = NL})
ColumnOf(s, i) ==
    LET nls == {p \in 1..i : s[p] = NL}
        last == IF nls = {} THEN 0 ELSE CHOOSE p \in nls : \A q \in nls : q <= p
    IN  i - last + 1

(***************************************************************************)
(* Operators (the fixed operator table) and reserved words.                *)
(***************************************************************************)
Operators ==
    { <<NL>>, <<"&">>, <<"&", "&">>, <<"(">>, <<")">>, <<";">>, <<";", ";">>,
      <<"<">>, <<"<", "&">>, <<"<", "(">>, <<"<", "<">>, <<"<", "<", "-">>,
      <<"<", "<", "<">>, <<"<", ">">>, <<">">>, <<">", "&">>, <<">", "(">>,
      <<">", ">">>, <<">", ">", "|">>, <<">", "|">>, <<"|">>, <<"|", "|">> }

IsOperatorPrefix(p) ==
    \E o \in Operators : Len(o) >= Len(p) /\ SubSeq(o, 1, Len(p)) = p

is_operator_char(c) == IsOperatorPrefix(<<c>>)

is_token_delimiter_char(c) == is_operator_char(c) \/ is_blank(c)

Keywords ==
    { <<"!">>, <<"{">>, <<"}">>, <<"[", "[">>, <<"d", "o">>, <<"f", "i">>,
      <<"i", "f">>, <<"i", "n">>, <<"f", "o", "r">>,
      <<"c", "a", "s", "e">>, <<"d", "o", "n", "e">>, <<"e", "l", "i", "f">>,
      <<"e", "l", "s", "e">>, <<"e", "s", "a", "c">>, <<"t", "h", "e", "n">>,
      <<"u", "n", "t", "i", "l">>, <<"w", "h", "i", "l", "e">>,
      <<"f", "u", "n", "c", "t", "i", "o", "n">> }

\* the longest operator that starts at the cursor, line continuations allowed
\* before each of its characters
RECURSIVE operator_tail(_, _, _)
operator_tail(s, i, prefix) ==
    LET j == line_continuations(s, i)
        c == Peek(s, j)
        p == Append(prefix, c)
    IN  IF c = EOF \/ ~IsOperatorPrefix(p) THEN R_None(i)
        ELSE LET deeper == operator_tail(s, j + 1, p)
             IN  IF deeper.t = "ok" THEN deeper
                 ELSE IF p \in Operators THEN R_Ok(p, j + 1)
                 ELSE R_None(i)

(***************************************************************************)
(* The closures the lexer passes around.  An is_escapable closure is the   *)
(* set of characters it accepts, or all of them; an is_delimiter closure   *)
(* is the set of characters it accepts.                                    *)
(***************************************************************************)
EscAll == [all |-> TRUE, set |-> {}]                       \* |_| true
EscNone == [all |-> FALSE, set |-> {}]                     \* |_| false
EscDoubleQuote == [all |-> FALSE, set |-> {DOLLAR, BQ, DQ, BS}]
EscArith == [all |-> FALSE, set |-> {DOLLAR, BQ, BS}]
IsEscapable(E, c) == E.all \/ c \in E.set

\* is_token_delimiter_char as the set of the characters it accepts
TokenDelimiterChars == {o[1] : o \in Operators} \cup Blanks

(***************************************************************************)
(* The lexer's functions.  A function that goes on after a call it makes   *)
(* is written as the call and an operator that takes the call's result.    *)
(***************************************************************************)
RECURSIVE command_substitution(_, _, _), text_with_parentheses_loop(_, _, _, _, _, _),
          dollar_unit(_, _), backquote_loop(_, _, _, _, _),
          text_loop(_, _, _, _, _), word_loop(_, _, _, _), token(_, _),
          inner_program(_, _, _)

\* Lexer::command_substitution, after the nested program
command_substitution_close(s, i, opening_location, content) ==
    IF content.t # "ok" THEN content
    ELSE IF Peek(s, content.i) = RPAREN
    THEN R_Ok(CommandSubst(SubSeq(s, i + 2, content.i), opening_location),
              content.i + 1)
    ELSE R_Err("UnclosedCommandSubstitution", opening_location, content.i)

\* Lexer::command_substitution
command_substitution(s, i, opening_location) ==
    IF Peek(s, i) # LPAREN THEN R_None(i)
    ELSE command_substitution_close(s, i, opening_location, inner_program(s, i + 1, 0))

\* Lexer::text_with_parentheses
text_with_parentheses(s, i, is_delimiter, is_escapable) ==
    text_with_parentheses_loop(s, i, is_delimiter, is_escapable, <<>>, <<>>)

\* Lexer::arithmetic_expansion, part 3: the closing `))` after the content
\* that ends at the cursor content.i; k is the cursor after the first `)` and
\* the line continuations that follow it
arithmetic_expansion_without_rewind(s, i, location, content, k) ==
    IF content.t # "ok" THEN content
    ELSE IF Peek(s, content.i) = EOF
    THEN R_Err("UnclosedArith", location, content.i)
    ELSE IF Peek(s, content.i) # RPAREN THEN R_Panic(content.i)
    ELSE IF Peek(s, k) = RPAREN THEN R_Ok(Arith(content.v, location), k + 1)
    ELSE IF Peek(s, k) = EOF THEN R_Err("UnclosedArith", location, k)
    ELSE R_Unmatched(k, location)

arithmetic_expansion_close(s, i, location, content, k) ==
    IF content.t # "ok" THEN content
    ELSE IF Peek(s, content.i) = EOF
    THEN R_Err("UnclosedArith", location, content.i)
    ELSE IF Peek(s, content.i) # RPAREN THEN R_Panic(content.i)
    ELSE IF Peek(s, k) = RPAREN THEN R_Ok(Arith(content.v, location), k + 1)
    ELSE IF Peek(s, k) = EOF THEN R_Err("UnclosedArith", location, k)
    ELSE R_Unmatched(i, location)

\* Lexer::arithmetic_expansion, part 2: the content after the `((` that ends
\* at the cursor j
arithmetic_expansion_content(s, i, location, content) ==
    arithmetic_expansion_close(s, i, location, content,
                               line_continuations(s, content.i + 1))

\* Lexer::arithmetic_expansion, part 1: the cursor j after the first `(` and
\* the line continuations that follow it
arithmetic_expansion_open(s, i, location, j) ==
    IF Peek(s, j) # LPAREN THEN R_Unmatched(i, location)
    ELSE arithmetic_expansion_content(s, i, location,
             text_with_parentheses(s, j + 1, {RPAREN}, EscArith))

\* Lexer::arithmetic_expansion
arithmetic_expansion(s, i, location) ==
    IF Peek(s, i) # LPAREN THEN R_Unmatched(i, location)
    ELSE arithmetic_expansion_open(s, i, location, line_continuations(s, i + 1))

\* Lexer::dollar_unit, after command_substitution; i is the cursor before the `$`
dollar_unit_without_rewind(s, i, c) ==
    IF c.t # "none" THEN c ELSE R_None(c.i)

dollar_unit_command_substitution(s, i, c) ==
    IF c.t # "none" THEN c ELSE R_None(i)

\* Lexer::dollar_unit, after arithmetic_expansion
dollar_unit_arithmetic_expansion(s, i, a) ==
    IF a.t # "unmatched" THEN a
    ELSE dollar_unit_command_substitution(s, i, command_substitution(s, a.i, a.opening))

\* Lexer::dollar_unit
dollar_unit(s, i) ==
    IF Peek(s, i) # DOLLAR THEN R_None(i)
    ELSE dollar_unit_arithmetic_expansion(s, i, arithmetic_expansion(s, i + 1, i))

\* Lexer::backquote_unit, after the line continuations
backquote_unit_at(s, j, c, double_quote_escapable) ==
    IF Peek(s, j) = BS
    THEN IF c \in {DOLLAR, BQ, BS} \/ (c = DQ /\ double_quote_escapable)
         THEN R_Ok(Backslashed(c), j + 2)
         ELSE R_Ok(Literal(BS), j + 1)
    ELSE IF Peek(s, j) # EOF /\ Peek(s, j) # BQ
    THEN R_Ok(Literal(Peek(s, j)), j + 1)
    ELSE R_None(j)

\* Lexer::backquote_unit
backquote_unit_from(s, j, double_quote_escapable) ==
    backquote_unit_at(s, j, Peek(s, j + 1), double_quote_escapable)

backquote_unit(s, i, double_quote_escapable) ==
    backquote_unit_from(s, line_continuations(s, i), double_quote_escapable)

\* Lexer::backquote: the loop over the units, and the closing backquote
backquote_next(s, double_quote_escapable, content, location, unit) ==
    IF unit.t = "ok"
    THEN backquote_loop(s, unit.i, double_quote_escapable,
                        Append(content, unit.v), location)
    ELSE IF Peek(s, unit.i) = BQ
    THEN R_Ok(Backquote(content, location), unit.i + 1)
    ELSE R_Err("UnclosedBackquote", location, unit.i)

backquote_loop(s, i, double_quote_escapable, content, location) ==
    backquote_next(s, double_quote_escapable, content, location,
                   backquote_unit(s, i, double_quote_escapable))

\* Lexer::backquote
backquote(s, i, double_quote_escapable) ==
    IF Peek(s, i) # BQ THEN R_None(i)
    ELSE backquote_loop(s, i + 1, double_quote_escapable, <<>>, i)

\* Lexer::text_unit, after backquote: a literal character that is no delimiter
text_unit_literal(s, j, is_delimiter, b) ==
    IF b.t # "none" THEN b
    ELSE IF Peek(s, j) # EOF /\ Peek(s, j) \notin is_delimiter
    THEN R_Ok(Literal(Peek(s, j)), j + 1)
    ELSE R_None(j)

\* text_unit_backquote that passes is_escapable('_') on as it is
text_unit_backquote_same_sense(s, j, is_delimiter, is_escapable, d) ==
    IF d.t # "none" THEN d
    ELSE text_unit_literal(s, j, is_delimiter,
                           backquote(s, j, IsEscapable(is_escapable, "_")))

\* Lexer::text_unit, after dollar_unit: a backquote
text_unit_backquote(s, j, is_delimiter, is_escapable, d) ==
    IF d.t # "none" THEN d
    ELSE text_unit_literal(s, j, is_delimiter,
                           backquote(s, j, ~IsEscapable(is_escapable, "_")))

\* text_unit_at that takes every character after a backslash as escaped
text_unit_at_escape_unchecked(s, j, c, is_delimiter, is_escapable) ==
    IF Peek(s, j) = BS
    THEN IF c # EOF
         THEN R_Ok(Backslashed(c), j + 2)
         ELSE R_Ok(Literal(BS), j + 1)
    ELSE text_unit_backquote(s, j, is_delimiter, is_escapable, dollar_unit(s, j))

\* Lexer::text_unit, after the line continuations; c is the character after
\* the next one
text_unit_at(s, j, c, is_delimiter, is_escapable) ==
    IF Peek(s, j) = BS
    THEN IF c # EOF /\ IsEscapable(is_escapable, c)
         THEN R_Ok(Backslashed(c), j + 2)
         ELSE R_Ok(Literal(BS), j + 1)
    ELSE text_unit_backquote(s, j, is_delimiter, is_escapable, dollar_unit(s, j))

text_unit_from(s, j, is_delimiter, is_escapable) ==
    text_unit_at(s, j, Peek(s, j + 1), is_delimiter, is_escapable)

\* Lexer::text_unit
text_unit(s, i, is_delimiter, is_escapable) ==
    text_unit_from(s, line_continuations(s, i), is_delimiter, is_escapable)

\* Lexer::text: the loop over the units
text_next(s, is_delimiter, is_escapable, units, unit) ==
    IF unit.t = "ok"
    THEN text_loop(s, unit.i, is_delimiter, is_escapable, Append(units, unit.v))
    ELSE IF unit.t = "none" THEN R_Ok(units, unit.i)
    ELSE unit

text_loop(s, i, is_delimiter, is_escapable, units) ==
    text_next(s, is_delimiter, is_escapable, units,
              text_unit(s, i, is_delimiter, is_escapable))

\* Lexer::text
text(s, i, is_delimiter, is_escapable) ==
    text_loop(s, i, is_delimiter, is_escapable, <<>>)

\* is_delimiter_or_paren that asks is_delimiter inside parentheses too
is_delimiter_or_paren_always_delimiter(is_delimiter, open_paren_locations) ==
    {LPAREN} \cup is_delimiter
             \cup (IF open_paren_locations = <<>> THEN {} ELSE {RPAREN})

\* the closure is_delimiter_or_paren of Lexer::text_with_parentheses
is_delimiter_or_paren(is_delimiter, open_paren_locations) ==
    {LPAREN} \cup (IF open_paren_locations = <<>> THEN is_delimiter ELSE {RPAREN})

\* Lexer::text_with_parentheses: what follows the units read by text, which
\* end at the cursor j
text_with_parentheses_paren(s, j, units, open_paren_locations) ==
    IF Peek(s, j) = LPAREN
    THEN [t |-> "loop", i |-> j + 1, units |-> Append(units, Literal(LPAREN)),
          open |-> Append(open_paren_locations, j)]
    ELSE IF open_paren_locations # <<>>
    THEN IF Peek(s, j) = RPAREN
         THEN [t |-> "loop", i |-> j + 1, units |-> Append(units, Literal(RPAREN)),
               open |-> SubSeq(open_paren_locations, 1, Len(open_paren_locations) - 1)]
         ELSE [t |-> "err", i |-> j, units |-> units, open |-> open_paren_locations]
    ELSE [t |-> "break", i |-> j, units |-> units, open |-> open_paren_locations]

\* text_with_parentheses_step that reports the outermost open parenthesis
text_with_parentheses_step_outermost(s, is_delimiter, is_escapable, step) ==
    IF step.t = "loop"
    THEN text_with_parentheses_loop(s, step.i, is_delimiter, is_escapable,
                                    step.units, step.open)
    ELSE IF step.t = "err"
    THEN R_Err("UnclosedParen", step.open[1], step.i)
    ELSE R_Ok(step.units, step.i)

text_with_parentheses_step(s, is_delimiter, is_escapable, step) ==
    IF step.t = "loop"
    THEN text_with_parentheses_loop(s, step.i, is_delimiter, is_escapable,
                                    step.units, step.open)
    ELSE IF step.t = "err"
    THEN R_Err("UnclosedParen", step.open[Len(step.open)], step.i)
    ELSE R_Ok(step.units, step.i)

text_with_parentheses_next(s, is_delimiter, is_escapable, units, open_paren_locations, next_units) ==
    IF next_units.t # "ok" THEN next_units
    ELSE text_with_parentheses_step(s, is_delimiter, is_escapable,
             text_with_parentheses_paren(s, next_units.i, units \o next_units.v,
                                         open_paren_locations))

text_with_parentheses_loop(s, i, is_delimiter, is_escapable, units, open_paren_locations) ==
    text_with_parentheses_next(s, is_delimiter, is_escapable, units,
        open_paren_locations,
        text(s, i, is_delimiter_or_paren(is_delimiter, open_paren_locations),
             is_escapable))

RECURSIVE single_quote_loop(_, _, _, _)
\* single_quote_loop in which a backslash escapes the next character
single_quote_loop_backslash_escapes(s, i, opening_location, content) ==
    IF Peek(s, i) = SQ THEN R_Ok(SingleQuote(content), i + 1)
    ELSE IF Peek(s, i) = EOF THEN R_Err("UnclosedSingleQuote", opening_location, i)
    ELSE IF Peek(s, i) = BS /\ Peek(s, i + 1) # EOF
    THEN single_quote_loop(s, i + 2, opening_location,
                           content \o <<BS, Peek(s, i + 1)>>)
    ELSE single_quote_loop(s, i + 1, opening_location, Append(content, Peek(s, i)))

single_quote_loop(s, i, opening_location, content) ==
    IF Peek(s, i) = SQ THEN R_Ok(SingleQuote(content), i + 1)
    ELSE IF Peek(s, i) = EOF THEN R_Err("UnclosedSingleQuote", opening_location, i)
    ELSE single_quote_loop(s, i + 1, opening_location, Append(content, Peek(s, i)))

\* Lexer::single_quote
single_quote(s, i, opening_location) ==
    single_quote_loop(s, i, opening_location, <<>>)

\* double_quote_close with the two locations of the error swapped
double_quote_close_swapped_locations(s, opening_location, content) ==
    IF content.t # "ok" THEN content
    ELSE IF Peek(s, content.i) = DQ
    THEN R_Ok(DoubleQuote(content.v), content.i + 1)
    ELSE R_Err("UnclosedDoubleQuote", content.i, opening_location)

\* Lexer::double_quote, after the content
double_quote_close(s, opening_location, content) ==
    IF content.t # "ok" THEN content
    ELSE IF Peek(s, content.i) = DQ
    THEN R_Ok(DoubleQuote(content.v), content.i + 1)
    ELSE R_Err("UnclosedDoubleQuote", opening_location, content.i)

\* Lexer::double_quote
double_quote(s, i, opening_location) ==
    double_quote_close(s, opening_location, text(s, i, {DQ}, EscDoubleQuote))

\* Lexer::word_unit: .map(Unquoted)
word_unit_unquoted(unit) ==
    IF unit.t = "ok" THEN R_Ok(Unquoted(unit.v), unit.i) ELSE unit

\* Lexer::word_unit
word_unit(s, i, is_delimiter) ==
    IF Peek(s, i) = SQ THEN single_quote(s, i + 1, i)
    ELSE IF Peek(s, i) = DQ THEN double_quote(s, i + 1, i)
    ELSE word_unit_unquoted(text_unit(s, i, is_delimiter, EscAll))

\* Lexer::word: the loop over the units
word_next(s, is_delimiter, units, unit) ==
    IF unit.t = "ok"
    THEN word_loop(s, unit.i, is_delimiter, Append(units, unit.v))
    ELSE IF unit.t = "none" THEN R_Ok(units, unit.i)
    ELSE unit

word_loop(s, i, is_delimiter, units) ==
    word_next(s, is_delimiter, units, word_unit(s, i, is_delimiter))

\* a Word: its units and the location of its first character
Word(units, location) == [units |-> units, location |-> location]

word_located(i, units) ==
    IF units.t = "ok" THEN R_Ok(Word(units.v, i), units.i) ELSE units

\* Lexer::word
word(s, i, is_delimiter) ==
    word_located(i, word_loop(s, i, is_delimiter, <<>>))

\* the range of the Location of the character at the cursor i, as
\* source_chars gives it and Lexer::location returns it
RangeOf(i) == [start |-> i, end |-> i + 1]

(***************************************************************************)
(* Tokens.                                                                 *)
(***************************************************************************)
EndOfInput == [k |-> "EndOfInput", x |-> <<>>]
IoNumber == [k |-> "IoNumber", x |-> <<>>]
TokenNone == [k |-> "Token", x |-> <<>>]            \* TokenId::Token(None)
TokenKeyword(kw) == [k |-> "Token", x |-> kw]       \* TokenId::Token(Some(kw))
Operator(o) == [k |-> "Operator", x |-> o]
Token(w, id, i) == [word |-> w, id |-> id, index |-> i]

IsLiteralUnit(u) == u.k = "Unquoted" /\ u.u.k = "Literal"

\* Word::to_string_if_literal: the word's characters if every unit is an
\* unquoted literal
to_string_if_literal(w) ==
    IF \A p \in 1..Len(w.units) : IsLiteralUnit(w.units[p])
    THEN [some |-> TRUE, v |-> [p \in 1..Len(w.units) |-> w.units[p].u.c]]
    ELSE [some |-> FALSE, v |-> <<>>]

\* Word::parse_tilde_front: a leading `~` and the literal characters up to
\* the first `/` or `:` become a Tilde unit
parse_tilde_front(units) ==
    IF units = <<>> \/ ~IsLiteralUnit(units[1]) THEN units
    ELSE IF units[1].u.c # "~" THEN units
    ELSE LET ends == {p \in 2..Len(units) :
                         IsLiteralUnit(units[p]) /\ units[p].u.c \in {"/", ":"}}
             e == IF ends = {} THEN Len(units) + 1
                  ELSE CHOOSE p \in ends : \A q \in ends : p <= q
         IN  IF \A p \in 2..(e - 1) : IsLiteralUnit(units[p])
             THEN <<Tilde([p \in 1..(e - 2) |-> units[p + 1].u.c])>>
                  \o SubSeq(units, e, Len(units))
             ELSE units

\* Lexer::operator
operator_token(i, o) ==
    IF o.t # "ok" THEN R_None(i)
    ELSE R_Ok(Token(Word([p \in 1..Len(o.v) |-> Unquoted(Literal(o.v[p]))], i),
                    Operator(o.v), i), o.i)

operator(s, i) == operator_token(i, operator_tail(s, i, <<>>))

\* token_id without the look at the next character
token_id_without_peek(s, i, w, literal) ==
    IF w.units = <<>> THEN EndOfInput
    ELSE IF literal.some /\ literal.v \in Keywords THEN TokenKeyword(literal.v)
    ELSE IF /\ literal.some
            /\ \A p \in 1..Len(literal.v) : literal.v[p] \in Digits
    THEN IoNumber
    ELSE TokenNone

\* token_id that takes the end of input for an empty word only at the end of
\* the text
token_id_end_at_eof_only(s, i, w, literal) ==
    IF w.units = <<>> /\ Peek(s, i) = EOF THEN EndOfInput
    ELSE IF literal.some /\ literal.v \in Keywords THEN TokenKeyword(literal.v)
    ELSE IF /\ literal.some
            /\ \A p \in 1..Len(literal.v) : literal.v[p] \in Digits
            /\ Peek(s, i) \in {"<", ">"}
    THEN IoNumber
    ELSE TokenNone

\* Lexer::token_id; i is the cursor after the word, literal the result of
\* word.to_string_if_literal()
token_id_of(s, i, w, literal) ==
    IF w.units = <<>> THEN EndOfInput
    ELSE IF literal.some /\ literal.v \in Keywords THEN TokenKeyword(literal.v)
    ELSE IF /\ literal.some
            /\ \A p \in 1..Len(literal.v) : literal.v[p] \in Digits
            /\ Peek(s, i) \in {"<", ">"}
    THEN IoNumber
    ELSE TokenNone

token_id(s, i, w) == token_id_of(s, i, w, to_string_if_literal(w))

\* token_identified that takes the cursor after the word for the index
token_identified_index_after(s, i, j, w) == R_Ok(Token(w, token_id(s, j, w), j), j)

\* Lexer::token, after word: parse_tilde_front and token_id
token_identified(s, i, j, w) == R_Ok(Token(w, token_id(s, j, w), i), j)

token_of_word(s, i, w) ==
    IF w.t # "ok" THEN w
    ELSE token_identified(s, i, w.i, Word(parse_tilde_front(w.v.units), w.v.location))

\* Lexer::token, after operator
token_after_operator(s, i, o) ==
    IF o.t = "ok" THEN o
    ELSE token_of_word(s, i, word(s, i, TokenDelimiterChars))

\* Lexer::token
token(s, i) == token_after_operator(s, i, operator(s, i))

(***************************************************************************)
(* The nested program of a command substitution, Lexer::inner_program:     *)
(* tokens are read, blanks skipped between them, up to the `)` that        *)
(* matches, or to the end of input.  A `(` token opens a nested level.     *)
(***************************************************************************)
inner_program_next(s, depth, tok) ==
    IF tok.t # "ok" THEN tok
    ELSE IF tok.v.id.k = "EndOfInput" THEN R_Ok(<<>>, tok.i)
    ELSE IF tok.v.id.k = "Operator" /\ tok.v.id.x = <<RPAREN>> /\ depth = 0
    THEN R_Ok(<<>>, tok.i - 1)
    ELSE inner_program(s, tok.i,
             IF tok.v.id.k = "Operator" /\ tok.v.id.x = <<RPAREN>> THEN depth - 1
             ELSE IF tok.v.id.k = "Operator" /\ tok.v.id.x = <<LPAREN>> THEN depth + 1
             ELSE depth)

inner_program(s, i, depth) ==
    inner_program_next(s, depth, token(s, skip_blanks(s, i)))

(***************************************************************************)
(* The state machine: a lexer over a source text, and the calls made on it. *)
(***************************************************************************)
Call(name, a, r) ==
    /\ op' = name
    /\ entry' = index
    /\ arg' = a
    /\ result' = r
    /\ index' = r.i
    /\ UNCHANGED source
    /\ UNCHANGED <<fillVars, sourceVars, inputVars, waitVars, subshellVars, semVars>>

Fresh == op = "init"
Usable == result.t \notin {"err", "panic"}

InitOver(A) ==
    /\ source \in StringsUpTo(A, MaxLen)
    /\ index = 0
    /\ op = "init"
    /\ entry = 0
    /\ arg = <<>>
    /\ result = R_None(0)
    /\ OnlyLexer

\* Lexer::token, called by the parser for each token
TokenCall ==
    /\ Usable
    /\ op \in {"init", "token", "skip_blanks"}
    /\ Call("token", <<>>, token(source, index))

\* Lexer::skip_blanks, called by the parser between tokens
SkipBlanksCall ==
    /\ Usable
    /\ op \in {"init", "token"}
    /\ Call("skip_blanks", <<>>, R_None(skip_blanks(source, index)))

\* Lexer::dollar_unit, called on a fresh lexer
DollarUnitCall ==
    /\ Fresh
    /\ Call("dollar_unit", <<>>, dollar_unit(source, index))

\* Lexer::arithmetic_expansion, called on a fresh lexer as after a `$`
ArithmeticExpansionCall ==
    /\ Fresh
    /\ Call("arithmetic_expansion", <<DummyLocation>>,
            arithmetic_expansion(source, index, DummyLocation))

\* Lexer::command_substitution, called on a fresh lexer as after a `$`, or
\* after arithmetic_expansion has returned the unmatched result
CommandSubstitutionCall ==
    /\ Fresh \/ (op = "arithmetic_expansion" /\ result.t = "unmatched")
    /\ Call("command_substitution", <<DummyLocation>>,
            command_substitution(source, index, DummyLocation))

\* Lexer::backquote
BackquoteCall ==
    /\ Fresh
    /\ \E double_quote_escapable \in BOOLEAN :
          Call("backquote", <<double_quote_escapable>>,
               backquote(source, index, double_quote_escapable))

\* the (is_delimiter, is_escapable) pairs the lexer calls text and text_unit with
TextContexts ==
    { <<"unquoted", TokenDelimiterChars, EscAll>>,       \* word_unit, from token
      <<"double_quote", {DQ}, EscDoubleQuote>>,          \* double_quote
      <<"arith", {RPAREN}, EscArith>> }                  \* arithmetic_expansion

\* Lexer::text_unit, called again and again in one context
TextUnitCall ==
    /\ Usable
    /\ \E c \in TextContexts :
          /\ Fresh \/ (op = "text_unit" /\ arg = <<c[1]>> /\ result.t = "ok")
          /\ Call("text_unit", <<c[1]>>, text_unit(source, index, c[2], c[3]))

\* the is_delimiter closures text_with_parentheses is called with: the one
\* of arithmetic_expansion, and those of the tests
ParenDelimiters == { {RPAREN}, {"b", RPAREN}, {"b", ";"} }

\* Lexer::text_with_parentheses
TextWithParenthesesCall ==
    /\ Fresh
    /\ \E d \in ParenDelimiters :
          Call("text_with_parentheses", <<d>>,
               text_with_parentheses(source, index, d, EscArith))

\* Lexer::word_unit, called again and again as Lexer::word does
WordUnitCall ==
    /\ Usable
    /\ Fresh \/ (op = "word_unit" /\ result.t = "ok")
    /\ Call("word_unit", <<>>, word_unit(source, index, TokenDelimiterChars))

(***************************************************************************)
(* Specifications: the lexer over every source text of a bounded length    *)
(* over an alphabet.                                                       *)
(***************************************************************************)
\* line continuations in tokens
AlphabetLC == {BS, NL, DOLLAR, LPAREN, RPAREN, DQ, "1", "<"}
InitLC == InitOver(AlphabetLC)
NextToken == TokenCall \/ SkipBlanksCall
SpecLC == InitLC /\ [][NextToken]_vars

\* tokens and their ids
AlphabetToken == {"1", "<", ">", " ", "a", BS, NL, SQ, "!"}
InitToken == InitOver(AlphabetToken)
SpecToken == InitToken /\ [][NextToken]_vars

\* dollar units: texts that begin with a part of `$((`
AlphabetDollar == {DOLLAR, LPAREN, RPAREN, "1", BS, NL}
DollarHeads ==
    { <<>>, <<DOLLAR>>, <<LPAREN>>, <<DOLLAR, LPAREN>>, <<LPAREN, LPAREN>>,
      <<DOLLAR, LPAREN, LPAREN>> }
InitDollar ==
    /\ source \in {h \o x : h \in DollarHeads, x \in StringsUpTo(AlphabetDollar, MaxLen)}
    /\ index = 0
    /\ op = "init"
    /\ entry = 0
    /\ arg = <<>>
    /\ result = R_None(0)
    /\ OnlyLexer
NextDollar ==
    \/ DollarUnitCall
    \/ ArithmeticExpansionCall
    \/ CommandSubstitutionCall
    \/ TextUnitCall
SpecDollar == InitDollar /\ [][NextDollar]_vars

\* quoted strings and substitutions, closed or not
AlphabetQuote == {SQ, DQ, BQ, BS, NL, DOLLAR, LPAREN, RPAREN, "a"}
InitQuote == InitOver(AlphabetQuote)
NextQuote ==
    \/ WordUnitCall
    \/ BackquoteCall
    \/ DollarUnitCall
    \/ ArithmeticExpansionCall
    \/ CommandSubstitutionCall
SpecQuote == InitQuote /\ [][NextQuote]_vars

\* backslashes in each quoting context: texts that may begin inside a double
\* quote or a backquote
AlphabetEscape == {BS, NL, DOLLAR, BQ, DQ, "a"}
EscapeHeads == { <<>>, <<DQ>>, <<BQ>>, <<DQ, BQ>> }
InitEscape ==
    /\ source \in {h \o x : h \in EscapeHeads, x \in StringsUpTo(AlphabetEscape, MaxLen)}
    /\ index = 0
    /\ op = "init"
    /\ entry = 0
    /\ arg = <<>>
    /\ result = R_None(0)
    /\ OnlyLexer
NextEscape ==
    \/ TextUnitCall
    \/ BackquoteCall
    \/ WordUnitCall
SpecEscape == InitEscape /\ [][NextEscape]_vars

\* texts with parentheses: texts that may begin inside a parenthesis
AlphabetParen == {LPAREN, RPAREN, "a", "b", ";"}
ParenHeads == { <<>>, <<LPAREN>>, <<"a", LPAREN, "b">> }
InitParen ==
    /\ source \in {h \o x : h \in ParenHeads, x \in StringsUpTo(AlphabetParen, MaxLen)}
    /\ index = 0
    /\ op = "init"
    /\ entry = 0
    /\ arg = <<>>
    /\ result = R_None(0)
    /\ OnlyLexer
NextParen == TextWithParenthesesCall
SpecParen == InitParen /\ [][NextParen]_vars

(***************************************************************************)
(* Helpers of the properties.                                              *)
(***************************************************************************)
\* the text from the cursor i on
Rest(s, i) == SubSeq(s, i + 1, Len(s))

\* s without its backslash-newline pairs
RECURSIVE Strip(_)
Strip(s) ==
    IF s = <<>> THEN <<>>
    ELSE IF Len(s) >= 2 /\ s[1] = BS /\ s[2] = NL THEN Strip(SubSeq(s, 3, Len(s)))
    ELSE <<s[1]>> \o Strip(SubSeq(s, 2, Len(s)))

\* a text with no single quote in which every backslash stands before a
\* newline: each backslash-newline pair of it is unescaped and outside single
\* quotes
OnlyLineContinuations(s) ==
    \A p \in 1..Len(s) :
        /\ s[p] # SQ
        /\ s[p] = BS => (p < Len(s) /\ s[p + 1] = NL)

\* units without their locations, a command substitution's text without its
\* line continuations
RECURSIVE EraseTextUnit(_), EraseText(_)
EraseTextUnit(u) ==
    CASE u.k = "CommandSubst" -> CommandSubst(Strip(u.content), 0)
      [] u.k = "Arith" -> Arith(EraseText(u.content), 0)
      [] u.k = "Backquote" -> Backquote(u.content, 0)
      [] OTHER -> u
EraseText(units) == [p \in 1..Len(units) |-> EraseTextUnit(units[p])]
EraseWordUnit(u) ==
    CASE u.k = "Unquoted" -> Unquoted(EraseTextUnit(u.u))
      [] u.k = "DoubleQuote" -> DoubleQuote(EraseText(u.content))
      [] OTHER -> u

\* what a call of token shows: the token id and the word units, or the error
TokenView(r) ==
    IF r.t = "ok"
    THEN <<"ok", r.v.id,
           [p \in 1..Len(r.v.word.units) |-> EraseWordUnit(r.v.word.units[p])]>>
    ELSE <<r.t, r.cause, <<>>>>

IsDigitWord(w) ==
    /\ w.units # <<>>
    /\ \A p \in 1..Len(w.units) : IsLiteralUnit(w.units[p]) /\ w.units[p].u.c \in Digits

(***************************************************************************)
(* C1 (as claimed).  A backslash-newline pair outside single quotes is     *)
(* invisible: token gives the same token id and word units for a text as   *)
(* for the text with its backslash-newline pairs deleted.                  *)
(***************************************************************************)
C1_LineContinuationInvisible ==
    (op = "token" /\ OnlyLineContinuations(Rest(source, entry)))
        => TokenView(result) = TokenView(token(Strip(Rest(source, entry)), 0))

(***************************************************************************)
(* C2.  token gives the id IoNumber exactly to a word of unquoted literal  *)
(* ASCII digits when the character at the cursor after the word is `<` or  *)
(* `>`; such a word before anything else is a Token(None); the word takes  *)
(* the digits and nothing more, so the `<` or `>` is not consumed.         *)
(***************************************************************************)
C2_IoNumber ==
    (op = "token" /\ result.t = "ok") =>
        LET tok == result.v
            digits == [p \in 1..Len(tok.word.units) |-> tok.word.units[p].u.c]
        IN  /\ tok.id = IoNumber <=>
                   (IsDigitWord(tok.word) /\ Peek(source, index) \in {"<", ">"})
            /\ (IsDigitWord(tok.word) /\ Peek(source, index) \notin {"<", ">"})
                   => tok.id = TokenNone
            /\ IsDigitWord(tok.word)
                   => Strip(SubSeq(source, entry + 1, index)) = digits

C2_Witness ==
    /\ op = "token"
    /\ result.t = "ok"
    /\ result.v.id = IoNumber
    /\ Len(result.v.word.units) = 2
    /\ Peek(source, index) = "<"

(***************************************************************************)
(* C3.  token returns the id EndOfInput exactly when no operator starts at *)
(* the cursor and the word parsed there has no units; on empty input the   *)
(* token is EndOfInput with an empty word, index 0 and a location at line  *)
(* 1, column 1.                                                            *)
(***************************************************************************)
C3_EndOfInput ==
    (op = "token" /\ result.t = "ok") =>
        LET tok == result.v
            w == word(source, entry, TokenDelimiterChars)
        IN  /\ tok.id = EndOfInput <=>
                   /\ operator(source, entry).t = "none"
                   /\ w.t = "ok"
                   /\ w.v.units = <<>>
            /\ tok.id = EndOfInput => tok.word.units = <<>>
            /\ tok.word.units = <<>> => tok.id = EndOfInput
            /\ source = <<>> =>
                   /\ tok = Token(Word(<<>>, 0), EndOfInput, 0)
                   /\ LineOf(source, tok.word.location) = 1
                   /\ ColumnOf(source, tok.word.location) = 1

C3_Witness ==
    /\ op = "token"
    /\ source = <<>>
    /\ result.t = "ok"
    /\ result.v.id = EndOfInput

\* the text at the cursor i begins with `((`, line continuations aside
BeginsWithTwoParens(s, i) ==
    LET r == Strip(Rest(s, i))
    IN  Len(r) >= 2 /\ r[1] = LPAREN /\ r[2] = LPAREN

\* the text at the cursor i is `((`, plain characters, a first closing `)`
\* and then, line continuations aside, a character other than `)`
PlainChars == {"1", "a", " ", ";"}
ClosedOnce(s, i) ==
    /\ Peek(s, i) = LPAREN
    /\ Peek(s, i + 1) = LPAREN
    /\ \E p \in (i + 2)..(Len(s) - 1) :
          /\ \A q \in (i + 2)..(p - 1) : Peek(s, q) \in PlainChars
          /\ Peek(s, p) = RPAREN
          /\ LET r == Strip(Rest(s, p + 1)) IN r # <<>> /\ r[1] # RPAREN

(***************************************************************************)
(* C4.  arithmetic_expansion returns the unmatched result, with the cursor *)
(* where it was on entry, when the text does not begin with `((` or when   *)
(* the first closing `)` is followed by a character other than `)`;        *)
(* dollar_unit then parses the same text from the same position as a       *)
(* command substitution.                                                   *)
(***************************************************************************)
C4_ArithmeticThenCommandSubstitution ==
    /\ op = "arithmetic_expansion" =>
          /\ result.t = "unmatched" => (index = entry /\ result.opening = arg[1])
          /\ ~BeginsWithTwoParens(source, entry) => result.t = "unmatched"
          /\ ClosedOnce(source, entry) => result.t = "unmatched"
    /\ (/\ op = "dollar_unit"
        /\ Peek(source, entry) = DOLLAR
        /\ \/ ~BeginsWithTwoParens(source, entry + 1)
           \/ ClosedOnce(source, entry + 1))
          => LET c == command_substitution(source, entry + 1, entry)
             IN  /\ c.t = "none" => (result.t = "none" /\ index = entry)
                 /\ c.t # "none" => result = c
                 /\ c.t = "ok" =>
                        /\ result.v.k = "CommandSubst"
                        /\ result.v.location = entry
                        /\ result.v.content = SubSeq(source, entry + 3, index - 1)

C4_Witness ==
    /\ op = "dollar_unit"
    /\ ClosedOnce(source, entry + 1)
    /\ result.t = "ok"
    /\ result.v.k = "CommandSubst"

(***************************************************************************)
(* C5.  A failed match consumes nothing: dollar_unit returns None with the *)
(* cursor where it was when the next character is not `$` or the `$` is    *)
(* not followed by `(`, and the `$` is then lexed as a literal character;  *)
(* command_substitution returns None with the cursor unchanged when the    *)
(* next character is not `(`.                                              *)
(***************************************************************************)
C5_FailedMatchConsumesNothing ==
    /\ op = "dollar_unit" =>
          /\ result.t = "none" => index = entry
          /\ (Peek(source, entry) # DOLLAR \/ Peek(source, entry + 1) # LPAREN)
                => (result.t = "none" /\ index = entry)
    /\ op = "command_substitution" =>
          /\ result.t = "none" => index = entry
          /\ Peek(source, entry) # LPAREN => (result.t = "none" /\ index = entry)
    /\ (/\ op = "text_unit"
        /\ Peek(source, entry) = DOLLAR
        /\ Peek(source, entry + 1) # LPAREN)
          => (result = R_Ok(Literal(DOLLAR), entry + 1) /\ index = entry + 1)

C5_Witness ==
    /\ op = "dollar_unit"
    /\ Peek(source, entry) = DOLLAR
    /\ Peek(source, entry + 1) \notin {LPAREN, EOF}
    /\ result.t = "none"
    /\ index = entry

\* no character of C stands in s from the cursor i on
NoneOf(s, i, C) == \A p \in (i + 1)..Len(s) : s[p] \notin C

\* every character of s from the cursor i on is in C
AllOf(s, i, C) == \A p \in (i + 1)..Len(s) : s[p] \in C

\* the text at the cursor i is `((`, then characters that are no parenthesis
\* and open nothing, then the end of input, or one `)`, line continuations
\* and the end of input
ArithCutShort(s, i) ==
    /\ Peek(s, i) = LPAREN
    /\ Peek(s, i + 1) = LPAREN
    /\ \E p \in (i + 2)..Len(s) :
          /\ \A q \in (i + 2)..(p - 1) :
                Peek(s, q) \notin {LPAREN, RPAREN, DOLLAR, BQ}
          /\ \/ p = Len(s)
             \/ Peek(s, p) = RPAREN /\ Strip(Rest(s, p + 1)) = <<>>
                                    /\ OnlyLineContinuations(Rest(s, p + 1))

\* the character that opens the construct whose error has the cause
OpenerOf(cause) ==
    CASE cause = "UnclosedSingleQuote" -> SQ
      [] cause = "UnclosedDoubleQuote" -> DQ
      [] cause = "UnclosedBackquote" -> BQ
      [] cause = "UnclosedArith" -> DOLLAR
      [] OTHER -> EOF

(***************************************************************************)
(* C6.  When the input ends inside a single-quoted string, a double-quoted *)
(* string, a backquote substitution, a `$(` command substitution or an     *)
(* arithmetic expansion with no nested parenthesis open, the result is an  *)
(* error without a unit: its cause is the Unclosed variant of the          *)
(* construct, its opening_location the location of the opening quote or    *)
(* backquote or of the `$` the caller passed, its location the end of the  *)
(* input.                                                                  *)
(***************************************************************************)
C6_UnclosedAtEndOfInput ==
    /\ (op = "word_unit" /\ Peek(source, entry) = SQ
                         /\ NoneOf(source, entry + 1, {SQ}))
          => result = R_Err("UnclosedSingleQuote", entry, Len(source))
    /\ (op = "word_unit" /\ Peek(source, entry) = DQ
                         /\ NoneOf(source, entry + 1, {DQ, DOLLAR, BQ}))
          => result = R_Err("UnclosedDoubleQuote", entry, Len(source))
    /\ (op \in {"word_unit", "backquote"} /\ Peek(source, entry) = BQ
                                          /\ NoneOf(source, entry + 1, {BQ}))
          => result = R_Err("UnclosedBackquote", entry, Len(source))
    /\ (op = "command_substitution" /\ Peek(source, entry) = LPAREN
                                    /\ AllOf(source, entry + 1, {"a"}))
          => result = R_Err("UnclosedCommandSubstitution", arg[1], Len(source))
    /\ (op = "dollar_unit" /\ Peek(source, entry) = DOLLAR
                           /\ Peek(source, entry + 1) = LPAREN
                           /\ AllOf(source, entry + 2, {"a"}))
          => result = R_Err("UnclosedCommandSubstitution", entry, Len(source))
    /\ (op = "arithmetic_expansion" /\ ArithCutShort(source, entry))
          => result = R_Err("UnclosedArith", arg[1], Len(source))
    /\ (op = "dollar_unit" /\ Peek(source, entry) = DOLLAR
                           /\ ArithCutShort(source, entry + 1))
          => result = R_Err("UnclosedArith", entry, Len(source))
    /\ (/\ result.t = "err"
        /\ result.cause \in {"UnclosedSingleQuote", "UnclosedDoubleQuote",
                             "UnclosedBackquote", "UnclosedArith"})
          => /\ result.v = <<>>
             /\ result.at = Len(source)
             /\ \/ /\ result.opening >= entry
                   /\ Peek(source, result.opening) = OpenerOf(result.cause)
                \/ op = "arithmetic_expansion" /\ result.opening = arg[1]

C6_Witness ==
    /\ op = "word_unit"
    /\ entry > 0
    /\ Peek(source, entry) = DQ
    /\ result = R_Err("UnclosedDoubleQuote", entry, Len(source))
    /\ Len(source) > entry + 1

\* the characters a backslash escapes in a context of text_unit
EscapableIn(context) ==
    CASE context = "unquoted" -> AlphabetEscape
      [] context = "double_quote" -> {DOLLAR, BQ, DQ, BS}
      [] context = "arith" -> {DOLLAR, BQ, BS}

\* the characters a backslash escapes inside a backquote substitution
EscapableInBackquote(double_quote_escapable) ==
    {DOLLAR, BQ, BS} \cup (IF double_quote_escapable THEN {DQ} ELSE {})

\* is_escapable('_') of a context of text_unit
EscapesUnderscore(context) == context = "unquoted"

\* the unit or the two units that a backslash before the character c gives
\* where the characters of E are escapable
BackslashUnits(E, c) ==
    IF c \in E THEN <<Backslashed(c)>> ELSE <<Literal(BS), Literal(c)>>

\* the units begin with the units of prefix
BeginsWith(units, prefix) ==
    Len(units) >= Len(prefix) /\ SubSeq(units, 1, Len(prefix)) = prefix

\* C7 for the characters c of the set Cs
EscapabilityByContext(Cs) ==
    /\ (op = "text_unit" /\ Peek(source, entry) = BS
                         /\ Peek(source, entry + 1) \in Cs)
          => LET c == Peek(source, entry + 1)
             IN  IF c \in EscapableIn(arg[1])
                 THEN result = R_Ok(Backslashed(c), entry + 2)
                 ELSE result = R_Ok(Literal(BS), entry + 1)
    /\ (op = "word_unit" /\ Peek(source, entry) = BS
                         /\ Peek(source, entry + 1) \in Cs)
          => result = R_Ok(Unquoted(Backslashed(Peek(source, entry + 1))), entry + 2)
    /\ (op = "word_unit" /\ Peek(source, entry) = DQ
                         /\ Peek(source, entry + 1) = BS
                         /\ Peek(source, entry + 2) \in Cs
                         /\ result.t = "ok")
          => BeginsWith(result.v.content,
                        BackslashUnits(EscapableIn("double_quote"),
                                       Peek(source, entry + 2)))
    /\ (op = "backquote" /\ Peek(source, entry) = BQ
                         /\ Peek(source, entry + 1) = BS
                         /\ Peek(source, entry + 2) \in Cs
                         /\ result.t = "ok")
          => BeginsWith(result.v.content,
                        BackslashUnits(EscapableInBackquote(arg[1]),
                                       Peek(source, entry + 2)))
    /\ (op = "text_unit" /\ Peek(source, entry) = BQ
                         /\ Peek(source, entry + 1) = BS
                         /\ Peek(source, entry + 2) \in Cs
                         /\ result.t = "ok")
          => BeginsWith(result.v.content,
                        BackslashUnits(EscapableInBackquote(~EscapesUnderscore(arg[1])),
                                       Peek(source, entry + 2)))

(***************************************************************************)
(* C7 (as claimed).  A backslash before a character c gives Backslashed(c) *)
(* by the quoting context alone: for every c in an unquoted word; for `$`, *)
(* backquote, `"` and `\` inside double quotes; for `$`, backquote and `\` *)
(* inside an arithmetic expansion; inside backquotes for `$`, backquote    *)
(* and `\`, and for `"` exactly when is_escapable('_') is false for the    *)
(* enclosing text.  Otherwise the backslash is Literal('\') and c is lexed *)
(* on its own as the next unit.                                            *)
(***************************************************************************)
C7_EscapabilityByContext == EscapabilityByContext(AlphabetEscape)

(***************************************************************************)
(* C7 (amended).  The same for every character c other than a newline; a   *)
(* backslash before a newline is a line continuation in each of these      *)
(* contexts: it gives no unit, and lexing goes on after the newline.       *)
(***************************************************************************)
C7_EscapabilityByContextButNewline ==
    /\ EscapabilityByContext(AlphabetEscape \ {NL})
    /\ (op \in {"text_unit", "word_unit"} /\ Peek(source, entry) = BS
                                          /\ Peek(source, entry + 1) = NL)
          => /\ index >= entry + 2
             /\ result.t = "ok" =>
                   /\ index > entry + 2
                   /\ result.v \notin {Backslashed(NL), Unquoted(Backslashed(NL))}
             /\ Peek(source, entry + 2) = "a"
                   => result.v \in {Literal("a"), Unquoted(Literal("a"))}
    /\ (/\ \/ op = "word_unit" /\ Peek(source, entry) \in {DQ, BQ}
           \/ op \in {"text_unit", "backquote"} /\ Peek(source, entry) = BQ
        /\ Peek(source, entry + 1) = BS
        /\ Peek(source, entry + 2) = NL
        /\ result.t = "ok")
          => LET content == IF op = "word_unit" /\ Peek(source, entry) = BQ
                            THEN result.v.u.content ELSE result.v.content
             IN  /\ ~BeginsWith(content, <<Backslashed(NL)>>)
                 /\ ~BeginsWith(content, <<Literal(BS), Literal(NL)>>)
                 /\ Peek(source, entry + 3) = "a"
                       => BeginsWith(content, <<Literal("a")>>)

C7_Witness ==
    /\ op = "text_unit"
    /\ arg[1] = "double_quote"
    /\ entry > 0
    /\ Peek(source, entry) = BS
    /\ Peek(source, entry + 1) = "a"
    /\ result = R_Ok(Literal(BS), entry + 1)

\* the text at the cursor i is a backquote, a backslash and a double quote
BackquotedDoubleQuote(s, i) ==
    Peek(s, i) = BQ /\ Peek(s, i + 1) = BS /\ Peek(s, i + 2) = DQ

\* inside backquotes a backslash escapes `$`, backquote and `\`, and `"` only
\* if the enclosing context permits it
BackquoteEscapes ==
    (op = "backquote" /\ result.t = "ok")
        => \A p \in 1..Len(result.v.content) :
              result.v.content[p].k = "Backslashed"
                  => result.v.content[p].c \in EscapableInBackquote(arg[1])

(***************************************************************************)
(* C8 (as claimed).  Inside backquotes a backslash escapes `$`, backquote  *)
(* and `\`, and `"` only if the enclosing context permits it; a double     *)
(* quote around the backquotes disables the escape of `"`: there `\"` is   *)
(* Literal('\') followed by Literal('"').                                  *)
(***************************************************************************)
C8_DoubleQuoteDisablesEscape ==
    /\ BackquoteEscapes
    /\ (op = "word_unit" /\ Peek(source, entry) = DQ
                         /\ BackquotedDoubleQuote(source, entry + 1)
                         /\ result.t = "ok")
          => BeginsWith(result.v.content[1].content, <<Literal(BS), Literal(DQ)>>)

(***************************************************************************)
(* C8 (amended).  Inside backquotes a backslash escapes `$`, backquote and *)
(* `\`, and `"` only if the enclosing context permits it; a double quote   *)
(* around the backquotes enables the escape of `"`: there `\"` is          *)
(* Backslashed('"'), and in an unquoted word it is Literal('\') followed   *)
(* by Literal('"').                                                        *)
(***************************************************************************)
C8_DoubleQuoteEnablesEscape ==
    /\ BackquoteEscapes
    /\ (op = "word_unit" /\ Peek(source, entry) = DQ
                         /\ BackquotedDoubleQuote(source, entry + 1)
                         /\ result.t = "ok")
          => BeginsWith(result.v.content[1].content, <<Backslashed(DQ)>>)
    /\ (op = "word_unit" /\ BackquotedDoubleQuote(source, entry)
                         /\ result.t = "ok")
          => BeginsWith(result.v.u.content, <<Literal(BS), Literal(DQ)>>)
    /\ (op = "text_unit" /\ BackquotedDoubleQuote(source, entry)
                         /\ result.t = "ok")
          => BeginsWith(result.v.content,
                        IF arg[1] = "unquoted" THEN <<Literal(BS), Literal(DQ)>>
                        ELSE <<Backslashed(DQ)>>)

C8_Witness ==
    /\ op = "word_unit"
    /\ Peek(source, entry) = DQ
    /\ BackquotedDoubleQuote(source, entry + 1)
    /\ result.t = "ok"
    /\ result.v.k = "DoubleQuote"
    /\ result.v.content[1].k = "Backquote"

\* the cursors after i at which a single quote stands
SingleQuotesAfter(s, i) == {p \in i..(Len(s) - 1) : Peek(s, p) = SQ}

(***************************************************************************)
(* C9.  Between an opening `'` and the next `'` every character, also a    *)
(* backslash, `$`, backquote, `"`, a newline and a backslash before a      *)
(* newline, is copied into the SingleQuote content; a backslash before a   *)
(* `'` does not escape it: the string ends at the first `'` that follows.  *)
(***************************************************************************)
C9_SingleQuoteLiteral ==
    (op = "word_unit" /\ Peek(source, entry) = SQ) =>
        LET closes == SingleQuotesAfter(source, entry + 1)
        IN  IF closes = {} THEN result.t = "err"
            ELSE LET close == CHOOSE p \in closes : \A q \in closes : p <= q
                 IN  /\ result = R_Ok(SingleQuote(SubSeq(source, entry + 2, close)),
                                      close + 1)
                     /\ index = close + 1

C9_Witness ==
    /\ op = "word_unit"
    /\ Peek(source, entry) = SQ
    /\ result.t = "ok"
    /\ result.v = SingleQuote(<<NL, BS>>)
    /\ index = Len(source)

\* where text_with_parentheses stops from the cursor p on with depth
\* parentheses open, and how many are open there: a `(` opens one, inside
\* parentheses a `)` closes one and every other character is passed, outside
\* them a character of is_delimiter stops the text
RECURSIVE ParenScan(_, _, _, _)
ParenScan(s, p, depth, is_delimiter) ==
    IF Peek(s, p) = EOF THEN [i |-> p, depth |-> depth]
    ELSE IF Peek(s, p) = LPAREN THEN ParenScan(s, p + 1, depth + 1, is_delimiter)
    ELSE IF depth > 0
    THEN ParenScan(s, p + 1, IF Peek(s, p) = RPAREN THEN depth - 1 ELSE depth,
                   is_delimiter)
    ELSE IF Peek(s, p) \in is_delimiter THEN [i |-> p, depth |-> 0]
    ELSE ParenScan(s, p + 1, 0, is_delimiter)

(***************************************************************************)
(* C10.  In text_with_parentheses, from an unquoted `(` to its matching    *)
(* `)` the caller's is_delimiter is not consulted: its characters are      *)
(* literal units and only `)` closes a level; the caller's delimiter ends  *)
(* the text, unconsumed, only when no parenthesis is open.                 *)
(***************************************************************************)
C10_DelimiterIgnoredInParentheses ==
    op = "text_with_parentheses" =>
        LET stop == ParenScan(source, entry, 0, arg[1])
        IN  /\ result.t = "ok" <=> stop.depth = 0
            /\ result.t = "ok" =>
                  /\ index = stop.i
                  /\ result.v = [p \in 1..(stop.i - entry) |-> Literal(source[entry + p])]
                  /\ Peek(source, index) \in arg[1] \cup {EOF}
            /\ result.t # "ok" =>
                  /\ result.cause = "UnclosedParen"
                  /\ result.at = Len(source)

C10_Witness ==
    /\ op = "text_with_parentheses"
    /\ arg[1] = {"b", ";"}
    /\ result.t = "ok"
    /\ Peek(source, index) = ";"
    /\ \E p \in entry..(index - 1) : Peek(source, p) = "b"
    /\ \E p \in entry..(index - 1) : Peek(source, p) = ";"

\* the cursors from a to b at which the character c stands
CursorsOf(s, a, b, c) == {q \in a..b : Peek(s, q) = c}

\* the `(` at the cursor q is open at the end of the input: no `)` after it
\* is left to close it once the parentheses opened after it are closed
OpenAtEnd(s, q) ==
    /\ Peek(s, q) = LPAREN
    /\ \A r \in (q + 1)..(Len(s) - 1) :
          Cardinality(CursorsOf(s, q + 1, r, RPAREN))
              <= Cardinality(CursorsOf(s, q + 1, r, LPAREN))

(***************************************************************************)
(* C11.  If the input ends while text_with_parentheses has a parenthesis   *)
(* open, it fails with UnclosedParen: the opening_location is the location *)
(* of the innermost `(` still open, the location is the end of the input.  *)
(***************************************************************************)
C11_UnclosedParenInnermost ==
    (op = "text_with_parentheses"
        /\ ParenScan(source, entry, 0, arg[1]).depth > 0) =>
        LET open == {q \in entry..(Len(source) - 1) : OpenAtEnd(source, q)}
        IN  /\ Cardinality(open) = ParenScan(source, entry, 0, arg[1]).depth
            /\ result = R_Err("UnclosedParen",
                              CHOOSE q \in open : \A r \in open : r <= q,
                              Len(source))

C11_Witness ==
    /\ op = "text_with_parentheses"
    /\ result.t = "err"
    /\ result.cause = "UnclosedParen"
    /\ result.at = Len(source)
    /\ \E q \in 0..(result.opening - 1) : OpenAtEnd(source, q)
    /\ \E q \in 0..(result.opening - 1) : Peek(source, q) = RPAREN

\* the text of the code s at a range
TextAt(s, range) ==
    SubSeq(s, range.start + 1, IF range.end < Len(s) THEN range.end ELSE Len(s))

\* every unit of the word is an unquoted literal character
IsLiteralWord(w) == \A p \in 1..Len(w.units) : IsLiteralUnit(w.units[p])

(***************************************************************************)
(* C14 (as claimed).  For every token t of the lexer the text of the code  *)
(* at the range of t.word.location is the source text from which t.word    *)
(* was produced, line continuations aside; t.index is the cursor at which  *)
(* the word starts.                                                        *)
(***************************************************************************)
C14_LocationSpansWord ==
    (op = "token" /\ result.t = "ok") =>
        /\ Strip(TextAt(source, RangeOf(result.v.word.location)))
               = Strip(SubSeq(source, entry + 1, index))
        /\ result.v.index = entry

(***************************************************************************)
(* C14 (amended).  For every token t of the lexer t.word.location is the   *)
(* location, in the code being lexed, of the first character of the source *)
(* text from which t.word was produced, a range of one character; at the   *)
(* end of the input it is the position after the last character.  t.index  *)
(* is the cursor at which the word starts, and a word of literal           *)
(* characters is that source text without its line continuations.          *)
(***************************************************************************)
C14_LocationOfFirstCharacter ==
    (op = "token" /\ result.t = "ok") =>
        LET tok == result.v
            range == RangeOf(tok.word.location)
            lexed == SubSeq(source, entry + 1, index)
        IN  /\ tok.index = entry
            /\ range.start = tok.index
            /\ range.end = range.start + 1
            /\ lexed # <<>> => TextAt(source, range) = <<lexed[1]>>
            /\ entry = Len(source) =>
                  (tok.id = EndOfInput /\ TextAt(source, range) = <<>>)
            /\ IsLiteralWord(tok.word) =>
                  [p \in 1..Len(tok.word.units) |-> tok.word.units[p].u.c]
                      = Strip(lexed)

C14_Witness ==
    /\ op = "token"
    /\ result.t = "ok"
    /\ entry > 0
    /\ index > entry + 2
    /\ Len(result.v.word.units) = 2
    /\ result.v.id = TokenNone
    /\ result.v.word.location = entry

(***************************************************************************)
(* The fill stage (src/parser/fill.rs).  A partial AST holds the           *)
(* placeholder MissingHereDoc where the full AST holds a here-document.    *)
(* The iterator is the pair of its items and of the number it has yielded. *)
(***************************************************************************)
MissingHereDoc == [missing |-> TRUE]
HereDoc(content) == [content |-> content]
RedirBodyHereDoc(h) == [k |-> "HereDoc", h |-> h]
Redir(fd, body) == [fd |-> fd, body |-> body]
SimpleCommand(words, redirs) == [words |-> words, redirs |-> redirs]
CommandSimpleCommand(c) == [k |-> "SimpleCommand", c |-> c]
Pipeline(commands, negation) == [commands |-> commands, negation |-> negation]

Iterator(items, pos) == [items |-> items, pos |-> pos]
F_Ok(v, i) == [t |-> "ok", v |-> v, i |-> i]
F_Panic(i) == [t |-> "panic", v |-> <<>>, i |-> i]   \* expect("missing value to fill")

\* impl Fill for RedirBody<MissingHereDoc>
fill_redir_body(self, i) ==
    IF i.pos < Len(i.items)
    THEN F_Ok(RedirBodyHereDoc(i.items[i.pos + 1]), Iterator(i.items, i.pos + 1))
    ELSE F_Panic(i)

\* impl Fill for Redir<MissingHereDoc>
fill_redir_with(self, body) ==
    IF body.t # "ok" THEN body ELSE F_Ok(Redir(self.fd, body.v), body.i)

fill_redir(self, i) == fill_redir_with(self, fill_redir_body(self.body, i))

\* impl Fill for SimpleCommand<MissingHereDoc>: the redirections in order
RECURSIVE fill_redirs(_, _, _)

\* fill_redirs_next that puts each filled redirection before the earlier ones
fill_redirs_next_reversed(redirs, done, redir) ==
    IF redir.t # "ok" THEN redir
    ELSE fill_redirs(redirs, redir.i, <<redir.v>> \o done)

fill_redirs_next(redirs, done, redir) ==
    IF redir.t # "ok" THEN redir
    ELSE fill_redirs(redirs, redir.i, Append(done, redir.v))

fill_redirs(redirs, i, done) ==
    IF redirs = <<>> THEN F_Ok(done, i)
    ELSE fill_redirs_next(Tail(redirs), done, fill_redir(Head(redirs), i))

fill_simple_command_with(self, redirs) ==
    IF redirs.t # "ok" THEN redirs
    ELSE F_Ok(SimpleCommand(self.words, redirs.v), redirs.i)

fill_simple_command(self, i) ==
    fill_simple_command_with(self, fill_redirs(self.redirs, i, <<>>))

\* impl Fill for Command<MissingHereDoc>
fill_command_with(c) ==
    IF c.t # "ok" THEN c ELSE F_Ok(CommandSimpleCommand(c.v), c.i)

fill_command(self, i) == fill_command_with(fill_simple_command(self.c, i))

\* impl Fill for Rc<T>: the value is taken out of the Rc, or cloned, filled
\* and put into a new Rc
fill_rc(self, i) == fill_command(self, i)

\* impl Fill for Vec<T>: the elements in order
RECURSIVE fill_vec(_, _, _)
fill_vec_next(xs, done, x) ==
    IF x.t # "ok" THEN x
    ELSE fill_vec(xs, x.i, Append(done, x.v))

fill_vec(xs, i, done) ==
    IF xs = <<>> THEN F_Ok(done, i)
    ELSE fill_vec_next(Tail(xs), done, fill_rc(Head(xs), i))

\* impl Fill for Pipeline<MissingHereDoc>
fill_pipeline_with(negation, commands) ==
    IF commands.t # "ok" THEN commands
    ELSE F_Ok(Pipeline(commands.v, negation), commands.i)

fill_pipeline(self, i) ==
    fill_pipeline_with(self.negation, fill_vec(self.commands, i, <<>>))

\* every sequence of 0 to n elements of S
SeqsUpTo(S, n) == UNION {[1..m -> S] : m \in 0..n}

\* the partial ASTs of the parser: pipelines of simple commands whose
\* redirections are here-documents yet to be read
PartialRedirs ==
    {Redir(fd, RedirBodyHereDoc(MissingHereDoc)) : fd \in {"None", "Some(3)"}}
PartialCommands ==
    {CommandSimpleCommand(SimpleCommand(<<"cat">>, redirs)) :
        redirs \in SeqsUpTo(PartialRedirs, MaxRedirs)}
PartialPipelines ==
    {Pipeline(commands, negation) :
        commands \in SeqsUpTo(PartialCommands, MaxCommands), negation \in BOOLEAN}

\* the here-documents read: the content of the n-th one is n
HereDocs(n) == [k \in 1..n |-> HereDoc(k)]

InitFill ==
    /\ ast \in PartialPipelines
    /\ \E n \in 0..MaxHereDocs :
          /\ here_docs = HereDocs(n)
          /\ taken \in 0..n
    /\ taken_before = taken
    /\ full = <<>>
    /\ OnlyFill

\* Fill::fill of the pipeline with the iterator
FillCall ==
    /\ full = <<>>
    /\ LET r == fill_pipeline(ast, Iterator(here_docs, taken))
       IN  /\ full' = [t |-> r.t, v |-> r.v]
           /\ taken' = r.i.pos
    /\ taken_before' = taken
    /\ UNCHANGED <<ast, here_docs>>
    /\ UNCHANGED <<lexerVars, sourceVars, inputVars, waitVars, subshellVars, semVars>>

NextFill == FillCall
SpecFill == InitFill /\ [][NextFill]_vars

\* the concatenation of the sequences of a sequence
RECURSIVE Flatten(_)
Flatten(seqs) == IF seqs = <<>> THEN <<>> ELSE Head(seqs) \o Flatten(Tail(seqs))

\* the here-document bodies of a pipeline in AST order: the commands in
\* order, the redirections of a command in order
Bodies(pipeline) ==
    Flatten([c \in 1..Len(pipeline.commands) |->
                [r \in 1..Len(pipeline.commands[c].c.redirs) |->
                    pipeline.commands[c].c.redirs[r].body.h]])

CountMissing(pipeline) ==
    Cardinality({k \in 1..Len(Bodies(pipeline)) : Bodies(pipeline)[k] = MissingHereDoc})

\* the pipeline with a placeholder for every body
Emptied(pipeline) ==
    Pipeline([c \in 1..Len(pipeline.commands) |->
                 CommandSimpleCommand(SimpleCommand(
                     pipeline.commands[c].c.words,
                     [r \in 1..Len(pipeline.commands[c].c.redirs) |->
                         Redir(pipeline.commands[c].c.redirs[r].fd,
                               RedirBodyHereDoc(MissingHereDoc))]))],
             pipeline.negation)

(***************************************************************************)
(* C12.  Fill::fill replaces the placeholders of a partial AST in AST      *)
(* order with successive items of the iterator: the k-th MissingHereDoc    *)
(* receives the k-th item, as many items are taken as the tree has         *)
(* placeholders, and the filled AST has no placeholder and is otherwise    *)
(* the partial AST.  With too few items fill panics.                       *)
(***************************************************************************)
C12_FillInOrder ==
    full # <<>> =>
        LET n == CountMissing(ast)
        IN  /\ full.t = "ok" <=> taken_before + n <= Len(here_docs)
            /\ full.t = "ok" =>
                  /\ taken = taken_before + n
                  /\ Bodies(full.v) = [k \in 1..n |-> here_docs[taken_before + k]]
                  /\ CountMissing(full.v) = 0
                  /\ Emptied(full.v) = ast
            /\ full.t # "ok" => (full.t = "panic" /\ taken = Len(here_docs))

C12_Witness ==
    /\ full # <<>>
    /\ full.t = "ok"
    /\ Len(ast.commands) = 2
    /\ Len(ast.commands[1].c.redirs) = 2
    /\ Len(ast.commands[2].c.redirs) = 1
    /\ taken_before = 1
    /\ taken = 4

(***************************************************************************)
(* Sources of code (yash-syntax/src/source.rs).  A Code has a Source; a    *)
(* Source that replaced or came from other code has the Location of that   *)
(* code, and so the Code and the Source of it.                             *)
(***************************************************************************)
Code(src) == [source |-> src]
LocationIn(code) == [code |-> code]
Alias(name) == [name |-> name]
SourceUnknown == [k |-> "Unknown"]
SourceStdin == [k |-> "Stdin"]
SourceAlias(original, alias) == [k |-> "Alias", original |-> original, alias |-> alias]
SourceCommandSubst(original) == [k |-> "CommandSubst", original |-> original]
SourceArith(original) == [k |-> "Arith", original |-> original]
\* the origin of a Trap is kept in the field original, as for the others
SourceTrap(condition, origin) ==
    [k |-> "Trap", condition |-> condition, original |-> origin]

\* the result of is_alias_for and the number of calls of it that were made
RECURSIVE is_alias_for(_, _)
is_alias_for_or(r) == [v |-> r.v, calls |-> r.calls + 1]

\* is_alias_for that looks at the name of the source itself only
is_alias_for_own_name_only(self, name) ==
    IF self.k = "Alias"
    THEN [v |-> self.alias.name = name, calls |-> 1]
    ELSE [v |-> FALSE, calls |-> 1]

\* Source::is_alias_for
is_alias_for(self, name) ==
    IF self.k = "Alias"
    THEN IF self.alias.name = name THEN [v |-> TRUE, calls |-> 1]
         ELSE is_alias_for_or(is_alias_for(self.original.code.source, name))
    ELSE [v |-> FALSE, calls |-> 1]

\* the sources from a source along the originals
RECURSIVE Chain(_)
Chain(src) ==
    IF src.k \in {"Unknown", "Stdin"} THEN <<src>>
    ELSE <<src>> \o Chain(src.original.code.source)

AliasNames == {"foo", "bar"}
AskedNames == AliasNames \cup {"baz"}

InitSource ==
    /\ code_source \in {SourceUnknown, SourceStdin}
    /\ alias_name = ""
    /\ alias_result = <<>>
    /\ OnlySource

\* a token that names an alias is replaced, and the replacement parsed as
\* code whose source is the alias, unless the code comes from that alias
SubstituteAlias ==
    /\ Len(Chain(code_source)) <= MaxDepth
    /\ \E name \in AliasNames :
          /\ ~is_alias_for(code_source, name).v
          /\ code_source' = SourceAlias(LocationIn(Code(code_source)), Alias(name))
    /\ alias_name' = ""
    /\ alias_result' = <<>>
    /\ UNCHANGED <<lexerVars, fillVars, inputVars, waitVars, subshellVars, semVars>>

\* the result of a command substitution, the value of an arithmetic
\* expansion or a trap command is parsed as code of its own
ParseNested ==
    /\ Len(Chain(code_source)) <= MaxDepth
    /\ \E nested \in {SourceCommandSubst(LocationIn(Code(code_source))),
                      SourceArith(LocationIn(Code(code_source))),
                      SourceTrap("INT", LocationIn(Code(code_source)))} :
          code_source' = nested
    /\ alias_name' = ""
    /\ alias_result' = <<>>
    /\ UNCHANGED <<lexerVars, fillVars, inputVars, waitVars, subshellVars, semVars>>

\* Source::is_alias_for
IsAliasForCall ==
    /\ alias_result = <<>>
    /\ \E name \in AskedNames :
          /\ alias_name' = name
          /\ alias_result' = is_alias_for(code_source, name)
    /\ UNCHANGED code_source
    /\ UNCHANGED <<lexerVars, fillVars, inputVars, waitVars, subshellVars, semVars>>

NextSource == SubstituteAlias \/ ParseNested \/ IsAliasForCall
SpecSource == InitSource /\ [][NextSource]_vars

\* the number of Alias sources a chain begins with
AliasRun(chain) ==
    IF \A k \in 1..Len(chain) : chain[k].k = "Alias" THEN Len(chain)
    ELSE (CHOOSE k \in 1..Len(chain) :
              chain[k].k # "Alias" /\ \A j \in 1..(k - 1) : chain[j].k = "Alias") - 1

(***************************************************************************)
(* C13.  is_alias_for(name) is true exactly when the source is an Alias    *)
(* whose alias has the name or the source of the code of its original is,  *)
(* recursively, an alias for the name; it is false for a source that is no *)
(* Alias; the walk along the originals ends after finitely many steps.  A  *)
(* name for which it is true is not substituted again: the aliases being   *)
(* expanded one inside the other have different names.                     *)
(***************************************************************************)
C13_IsAliasFor ==
    /\ alias_result # <<>> =>
          LET chain == Chain(code_source)
              run == AliasRun(chain)
              named == {k \in 1..run : chain[k].alias.name = alias_name}
          IN  /\ alias_result.v <=> named # {}
              /\ code_source.k # "Alias" => ~alias_result.v
              /\ alias_result.calls >= 1
              /\ alias_result.calls <= Len(chain)
              /\ alias_result.v => alias_result.calls \in named
              /\ ~alias_result.v => alias_result.calls = run + 1
    /\ code_source # <<>> =>
          LET chain == Chain(code_source)
          IN  \A j, k \in 1..Len(chain) :
                 (j < k /\ \A m \in j..k : chain[m].k = "Alias")
                     => chain[j].alias.name # chain[k].alias.name

C13_Witness ==
    /\ alias_result # <<>>
    /\ alias_result.v
    /\ alias_result.calls = 2
    /\ Len(Chain(code_source)) = 4
    /\ Chain(code_source)[3].k = "CommandSubst"

(***************************************************************************)
(* The input function Stdin (yash-env/src/input.rs).  A byte is a string;  *)
(* a character of a String is the sequence of the bytes of its UTF-8 form, *)
(* so the bytes of a String are its characters one after the other.        *)
(***************************************************************************)
InvalidByte == "FF"                          \* a byte no UTF-8 text holds
ReplacementCharacter == <<"EF", "BF", "BD">>   \* U+FFFD
Bytes == {"a", NL, InvalidByte}
Errnos == {"EBADF", "EIO"}

\* String::from_utf8(bytes), or String::from_utf8_lossy of the bytes
from_utf8_lossy(bytes) ==
    [p \in 1..Len(bytes) |->
        IF bytes[p] = InvalidByte THEN ReplacementCharacter ELSE <<bytes[p]>>]

\* str::as_bytes
RECURSIVE as_bytes(_)
as_bytes(line) == IF line = <<>> THEN <<>> ELSE Head(line) \o as_bytes(Tail(line))

I_Ok(line, pos) == [t |-> "ok", line |-> line, errno |-> "", pos |-> pos]
I_Err(errno, pos) == [t |-> "err", line |-> <<>>, errno |-> errno, pos |-> pos]

\* SharedSystem::read_async(Fd::STDIN, one byte): the system fails the read
\* with errno, or gives no byte at the end of the input, or the next byte
read_async(content, pos, fails, errno) ==
    IF fails THEN [t |-> "err", count |-> 0, byte |-> "", errno |-> errno]
    ELSE IF pos >= Len(content)
    THEN [t |-> "ok", count |-> 0, byte |-> "", errno |-> ""]
    ELSE [t |-> "ok", count |-> 1, byte |-> content[pos + 1], errno |-> ""]

\* the loop of next_line: the read number n from the position pos, after the
\* bytes read so far; the read number fail_at fails with errno
RECURSIVE read_loop(_, _, _, _, _, _)

\* read_loop_next that keeps reading after a newline, to the end of the input
read_loop_next_to_end(content, pos, bytes, n, fail_at, errno, read) ==
    IF read.t = "err" THEN I_Err(read.errno, pos)
    ELSE IF read.count = 0 THEN I_Ok(from_utf8_lossy(bytes), pos)
    ELSE read_loop(content, pos + 1, Append(bytes, read.byte),
                   n + 1, fail_at, errno)

\* one turn of the loop, after its read
read_loop_next(content, pos, bytes, n, fail_at, errno, read) ==
    IF read.t = "err" THEN I_Err(read.errno, pos)
    ELSE IF read.count = 0 THEN I_Ok(from_utf8_lossy(bytes), pos)
    ELSE IF read.byte = NL
    THEN I_Ok(from_utf8_lossy(Append(bytes, read.byte)), pos + 1)
    ELSE read_loop(content, pos + 1, Append(bytes, read.byte),
                   n + 1, fail_at, errno)

read_loop(content, pos, bytes, n, fail_at, errno) ==
    read_loop_next(content, pos, bytes, n, fail_at, errno,
                   read_async(content, pos, n = fail_at, errno))

\* the read of next_line
next_line_read(content, pos, fail_at, errno) ==
    read_loop(content, pos, <<>>, 1, fail_at, errno)

\* the echo of next_line that takes the state the cell had before the read
next_line_echo_state_before(line, before, cell) ==
    IF line.t = "ok" /\ before = "On" THEN as_bytes(line.line) ELSE <<>>

\* the echo of next_line: what it writes to the standard error after the
\* read, when the cell had the state before at the call and has the state
\* cell now
next_line_echo(line, before, cell) ==
    IF line.t = "ok" /\ cell = "On" THEN as_bytes(line.line) ELSE <<>>

\* the reads that next_line makes from the position pos if none fails: one
\* for each byte of the line, and one that finds the end of the input
ReadsFrom(content, pos) ==
    LET line == next_line_read(content, pos, 0, "")
    IN  IF line.pos > pos /\ content[line.pos] = NL
        THEN line.pos - pos
        ELSE line.pos - pos + 1

InitInput ==
    /\ stdin \in SeqsUpTo(Bytes, MaxInput)
    /\ stdin_pos = 0
    /\ echo = "None"
    /\ stderr = <<>>
    /\ returned = <<>>
    /\ OnlyInput

\* Stdin::next_line.  The system fails the read number fail_at of the call
\* (none if 0); while the call awaits the read, the holder of the echo cell
\* may set it.
NextLine ==
    /\ Len(returned) < MaxCalls
    /\ \E fail_at \in 0..ReadsFrom(stdin, stdin_pos), errno \in Errnos,
          cell \in (IF echo = "None" THEN {"None"} ELSE {"Off", "On"}) :
          LET line == next_line_read(stdin, stdin_pos, fail_at, errno)
          IN  /\ stdin_pos' = line.pos
              /\ echo' = cell
              /\ stderr' = stderr \o next_line_echo(line, echo, cell)
              /\ returned' = Append(returned,
                      [t |-> line.t, line |-> line.line, errno |-> line.errno,
                       pos |-> line.pos, cell |-> cell,
                       system_errno |-> IF fail_at = 0 THEN "" ELSE errno])
    /\ UNCHANGED stdin
    /\ UNCHANGED <<lexerVars, fillVars, sourceVars, waitVars, subshellVars, semVars>>

\* Stdin::set_echo
SetEcho ==
    /\ \E e \in {"None", "Off", "On"} : e # echo /\ echo' = e
    /\ UNCHANGED <<stdin, stdin_pos, stderr, returned>>
    /\ UNCHANGED <<lexerVars, fillVars, sourceVars, waitVars, subshellVars, semVars>>

NextStdin == NextLine
SpecStdin == InitInput /\ [][NextStdin]_vars

NextEcho == NextLine \/ SetEcho
SpecEcho == InitInput /\ [][NextEcho]_vars

(***************************************************************************)
(* C15: the lines of the standard input                                    *)
(***************************************************************************)
\* the read position before the call number k
PosBefore(k) == IF k = 1 THEN 0 ELSE returned[k - 1].pos

\* the read position after the line that begins after the position from
LineEnd(from) ==
    IF \E p \in (from + 1)..Len(stdin) : stdin[p] = NL
    THEN CHOOSE p \in (from + 1)..Len(stdin) :
             /\ stdin[p] = NL
             /\ \A q \in (from + 1)..(p - 1) : stdin[q] # NL
    ELSE Len(stdin)

\* the line is the text of the bytes: a character for a byte, U+FFFD for a
\* byte that no UTF-8 text holds
IsTextOf(line, bytes) ==
    /\ Len(line) = Len(bytes)
    /\ \A p \in 1..Len(bytes) :
          line[p] = IF bytes[p] \in {"a", NL} THEN <<bytes[p]>>
                    ELSE <<"EF", "BF", "BD">>

\* the lines that the successful calls among the first n returned, in order
RECURSIVE LinesRead(_)
LinesRead(n) ==
    IF n = 0 THEN <<>>
    ELSE LinesRead(n - 1) \o
         (IF returned[n].t = "ok" THEN returned[n].line ELSE <<>>)

\* the bytes of a sequence of characters
RECURSIVE BytesOf(_)
BytesOf(chars) ==
    IF chars = <<>> THEN <<>> ELSE Head(chars) \o BytesOf(Tail(chars))

\* a failed call returns the errno of the read that failed
ErrnoOfSystem ==
    \A k \in 1..Len(returned) :
        returned[k].t = "err" =>
            /\ returned[k].errno \in Errnos
            /\ returned[k].errno = returned[k].system_errno

RECURSIVE LinesReadWhileOn(_)
LinesReadWhileOn(n) ==
    IF n = 0 THEN <<>>
    ELSE LinesReadWhileOn(n - 1) \o
         (IF returned[n].t = "ok" /\ returned[n].cell = "On"
          THEN BytesOf(returned[n].line) ELSE <<>>)

\* the standard error changes only by a successful call that ends while the
\* cell is On, which appends the line it returns
EchoAppendsLine ==
    stderr' # stderr =>
        /\ Len(returned') = Len(returned) + 1
        /\ returned'[Len(returned')].t = "ok"
        /\ echo' = "On"
        /\ stderr' = stderr \o BytesOf(returned'[Len(returned')].line)

\* C16: the standard error holds the lines read while an echo cell was set
\* and On, one after the other, and nothing else; a line is written by the
\* call that read it, and setting the cell writes nothing.
C16_EchoWhileOn ==
    /\ [](stderr = LinesReadWhileOn(Len(returned)))
    /\ [][EchoAppendsLine]_vars

\* a line was read and echoed while the cell was On, and the next line was
\* read, and not echoed, after the cell was set to Off
C16_Witness ==
    /\ Len(returned) = 2
    /\ returned[1].t = "ok" /\ returned[1].cell = "On"
    /\ returned[2].t = "ok" /\ returned[2].cell = "Off"
    /\ returned[2].line # <<>>
    /\ stderr = BytesOf(returned[1].line)
    /\ stderr # <<>>

(***************************************************************************)
(* The wait built-in (yash-builtin/src/wait.rs).  A job is known by its    *)
(* process ID, which also stands for its index in the JobSet.               *)
(***************************************************************************)
Pids == {1, 2}
SUCCESS == 0
ERROR == 2
NOT_FOUND == 127
\* the exit status with which the process exits
ExitOf(pid) == pid + 4

\* WaitStatus
StillAlive == [t |-> "StillAlive", code |-> 0]
Exited(code) == [t |-> "Exited", code |-> code]
Signaled == [t |-> "Signaled", code |-> 0]
Stopped == [t |-> "Stopped", code |-> 0]
Continued == [t |-> "Continued", code |-> 0]
NoJob == [t |-> "NoJob", code |-> 0]

W_Result(status) == [t |-> "Result", exit_status |-> status, msg |-> ""]
W_Panic(msg) == [t |-> "panic", exit_status |-> 0, msg |-> msg]

to_job_result(status) ==
    IF status.t = "Exited"
    THEN [t |-> "Some", exit_status |-> status.code, msg |-> ""]
    ELSE IF status.t = "Signaled"
    THEN [t |-> "panic", exit_status |-> 0, msg |-> "handle signaled job"]
    ELSE IF status.t = "Stopped"
    THEN [t |-> "panic", exit_status |-> 0, msg |-> "handle stopped job"]
    ELSE IF status.t = "Continued"
    THEN [t |-> "panic", exit_status |-> 0, msg |-> "handle continued job"]
    ELSE [t |-> "None", exit_status |-> 0, msg |-> ""]

\* JobSet::find_by_pid
find_by_pid(js, pid) == IF pid \in Pids /\ js[pid] # NoJob THEN {pid} ELSE {}

\* JobSet::is_empty
is_empty(js) == \A pid \in Pids : js[pid] = NoJob

\* JobSet::remove
remove(js, pid) == [js EXCEPT ![pid] = NoJob]

\* remove_finished_jobs that removes every job
remove_finished_jobs_all(js) ==
    [t |-> "ok", msg |-> "", jobs |-> [pid \in Pids |-> NoJob]]

\* remove_finished_jobs: the jobs left, or the panic of the first job whose
\* status to_job_result does not handle
remove_finished_jobs(js) ==
    LET unhandled == {pid \in Pids : js[pid] # NoJob
                                     /\ to_job_result(js[pid]).t = "panic"}
    IN  IF unhandled # {}
        THEN [t |-> "panic", jobs |-> js,
              msg |-> to_job_result(js[CHOOSE pid \in unhandled :
                          \A other \in unhandled : pid <= other]).msg]
        ELSE [t |-> "ok", msg |-> "",
              jobs |-> [pid \in Pids |->
                           IF js[pid] # NoJob
                              /\ to_job_result(js[pid]).t = "Some"
                           THEN NoJob ELSE js[pid]]]

\* Env::wait_for_subshell(-1): what it can return now.  With no child
\* process it fails with ECHILD; otherwise it returns the new state of a
\* child process whose state has changed, and does not return while there
\* is none.
ChangedStates == {"HasExited", "WasSignaled", "HasStopped"}
wait_for_subshell(ch) ==
    IF \A pid \in Pids : ch[pid] = "None"
    THEN {[t |-> "Err", errno |-> "ECHILD", pid |-> 0, status |-> NoJob]}
    ELSE {[t |-> "Ok", errno |-> "", pid |-> pid,
           status |-> IF ch[pid] = "HasExited" THEN Exited(ExitOf(pid))
                      ELSE IF ch[pid] = "WasSignaled" THEN Signaled
                      ELSE Stopped] :
          pid \in {q \in Pids : ch[q] \in ChangedStates}}

\* the child processes after wait_for_subshell has returned w
reported(ch, w) ==
    IF w.t = "Err" THEN ch
    ELSE [ch EXCEPT ![w.pid] = IF @ = "HasStopped" THEN "Stopped" ELSE "None"]

\* JobSet::update_status: the jobs after wait_for_subshell has returned w
update_status(js, w) ==
    IF w.t = "Ok" /\ js[w.pid] # NoJob
    THEN [js EXCEPT ![w.pid] = w.status]
    ELSE js

\* job_spec.value.parse()
OperandValues == {"x", "0", "1", "2"}
parse(value) ==
    IF value = "0" THEN [t |-> "Ok", pid |-> 0]
    ELSE IF value = "1" THEN [t |-> "Ok", pid |-> 1]
    ELSE IF value = "2" THEN [t |-> "Ok", pid |-> 2]
    ELSE [t |-> "Err", pid |-> 0]

\* a job and a child process that can be there when the built-in is called
JobAndChild(pid) ==
    {<<NoJob, "None">>, <<NoJob, "Running">>,
     <<StillAlive, "Running">>, <<StillAlive, "None">>,
     <<Exited(ExitOf(pid)), "None">>, <<Signaled, "None">>,
     <<Stopped, "Stopped">>, <<Continued, "Running">>}

InitWait ==
    /\ \E both \in [Pids -> UNION {JobAndChild(pid) : pid \in Pids}] :
          /\ \A pid \in Pids : both[pid] \in JobAndChild(pid)
          /\ jobs = [pid \in Pids |-> both[pid][1]]
          /\ children = [pid \in Pids |-> both[pid][2]]
    /\ operands \in SeqsUpTo(OperandValues, MaxOperands)
    /\ wait_pc = "main"
    /\ operand = 0
    /\ exit_status = SUCCESS
    /\ wait_result = <<>>
    /\ waits = <<>>
    /\ obtained = <<>>
    /\ jobs_before = jobs
    /\ OnlyWait

\* main: the dispatch on the operands
Main ==
    /\ wait_pc = "main"
    /\ wait_pc' = IF operands = <<>> THEN "wait_for_all_jobs"
                  ELSE "wait_for_each_job"
    /\ operand' = 1
    /\ UNCHANGED <<jobs, children, operands, exit_status, wait_result, waits,
                   obtained, jobs_before>>
    /\ UNCHANGED <<lexerVars, fillVars, sourceVars, inputVars, subshellVars, semVars>>

\* the built-in returns the result
Return(res) ==
    /\ wait_pc' = IF res.t = "panic" THEN "panic" ELSE "done"
    /\ wait_result' = res

\* wait_for_all_jobs: one turn of the loop, up to the call of
\* wait_for_subshell
WaitForAllJobs ==
    /\ wait_pc = "wait_for_all_jobs"
    /\ LET removed == remove_finished_jobs(jobs)
       IN  /\ jobs' = removed.jobs
           /\ IF removed.t = "panic" THEN Return(W_Panic(removed.msg))
              ELSE IF is_empty(removed.jobs) THEN Return(W_Result(SUCCESS))
              ELSE /\ wait_pc' = "wait_for_all_jobs_await"
                   /\ UNCHANGED wait_result
    /\ UNCHANGED <<children, operands, operand, exit_status, waits, obtained,
                   jobs_before>>
    /\ UNCHANGED <<lexerVars, fillVars, sourceVars, inputVars, subshellVars, semVars>>

\* wait_for_all_jobs: wait_for_subshell returns
WaitForAllJobsAwait ==
    /\ wait_pc = "wait_for_all_jobs_await"
    /\ \E w \in wait_for_subshell(children) :
          /\ children' = reported(children, w)
          /\ jobs' = update_status(jobs, w)
          /\ waits' = Append(waits, w)
          /\ IF w.t = "Err" THEN Return(W_Result(SUCCESS))
             ELSE /\ wait_pc' = "wait_for_all_jobs"
                  /\ UNCHANGED wait_result
    /\ UNCHANGED <<operands, operand, exit_status, obtained, jobs_before>>
    /\ UNCHANGED <<lexerVars, fillVars, sourceVars, inputVars, subshellVars, semVars>>

\* the assignment to exit_status that keeps the first status that is not 0
wait_for_each_job_next_first_failure(previous, status) ==
    IF previous # SUCCESS THEN previous ELSE status

\* wait_for_each_job: the assignment to exit_status
wait_for_each_job_next(previous, status) == status

\* wait_for_each_job: the end of the turn of the loop for an operand, and
\* the return after the last
EndOperand(pid, found, status) ==
    /\ exit_status' = wait_for_each_job_next(exit_status, status)
    /\ obtained' = Append(obtained,
                          [pid |-> pid, found |-> found, status |-> status])
    /\ operand' = operand + 1
    /\ IF operand = Len(operands) THEN Return(W_Result(exit_status'))
       ELSE /\ wait_pc' = "wait_for_each_job"
            /\ UNCHANGED wait_result

\* the test that takes every process ID for that of a job
wait_for_each_job_has_job_always(found) == TRUE

\* wait_for_each_job: the test `if let Some(index)` on what find_by_pid found
wait_for_each_job_has_job(found) == found # {}

\* wait_for_each_job: the turn of the loop for an operand, up to the call of
\* wait_for_job
WaitForEachJob ==
    /\ wait_pc = "wait_for_each_job"
    /\ LET pid == parse(operands[operand])
       IN  IF pid.t = "Err" \/ pid.pid <= 0
           THEN /\ Return(W_Result(ERROR))
                /\ UNCHANGED <<operand, exit_status, obtained>>
           ELSE IF ~wait_for_each_job_has_job(find_by_pid(jobs, pid.pid))
           THEN EndOperand(pid.pid, FALSE, NOT_FOUND)
           ELSE /\ wait_pc' = "wait_for_job"
                /\ UNCHANGED <<operand, exit_status, obtained, wait_result>>
    /\ UNCHANGED <<jobs, children, operands, waits, jobs_before>>
    /\ UNCHANGED <<lexerVars, fillVars, sourceVars, inputVars, subshellVars, semVars>>

\* wait_for_job: one turn of the loop, up to the call of wait_for_subshell
WaitForJob ==
    /\ wait_pc = "wait_for_job"
    /\ LET pid == parse(operands[operand]).pid
           job == to_job_result(jobs[pid])
       IN  IF job.t = "Some"
           THEN /\ jobs' = remove(jobs, pid)
                /\ EndOperand(pid, TRUE, job.exit_status)
           ELSE IF job.t = "panic"
           THEN /\ Return(W_Panic(job.msg))
                /\ UNCHANGED <<jobs, operand, exit_status, obtained>>
           ELSE /\ wait_pc' = "wait_for_job_await"
                /\ UNCHANGED <<jobs, operand, exit_status, obtained,
                               wait_result>>
    /\ UNCHANGED <<children, operands, waits, jobs_before>>
    /\ UNCHANGED <<lexerVars, fillVars, sourceVars, inputVars, subshellVars, semVars>>

\* wait_for_job: wait_for_subshell returns
WaitForJobAwait ==
    /\ wait_pc = "wait_for_job_await"
    /\ \E w \in wait_for_subshell(children) :
          /\ children' = reported(children, w)
          /\ waits' = Append(waits, w)
          /\ IF w.t = "Err"
             THEN LET pid == parse(operands[operand]).pid
                  IN  /\ jobs' = remove(jobs, pid)
                      /\ EndOperand(pid, TRUE, NOT_FOUND)
             ELSE /\ jobs' = update_status(jobs, w)
                  /\ wait_pc' = "wait_for_job"
                  /\ UNCHANGED <<operand, exit_status, obtained, wait_result>>
    /\ UNCHANGED <<operands, jobs_before>>
    /\ UNCHANGED <<lexerVars, fillVars, sourceVars, inputVars, subshellVars, semVars>>

\* a running child process exits, is killed by a signal or is stopped while
\* the built-in runs
ChildChanges ==
    /\ wait_pc \notin {"idle", "done", "panic"}
    /\ \E pid \in Pids, state \in ChangedStates :
          /\ children[pid] = "Running"
          /\ children' = [children EXCEPT ![pid] = state]
    /\ UNCHANGED <<jobs, operands, wait_pc, operand, exit_status, wait_result,
                   waits, obtained, jobs_before>>
    /\ UNCHANGED <<lexerVars, fillVars, sourceVars, inputVars, subshellVars, semVars>>

NextWait ==
    \/ Main
    \/ WaitForAllJobs
    \/ WaitForAllJobsAwait
    \/ WaitForEachJob
    \/ WaitForJob
    \/ WaitForJobAwait
    \/ ChildChanges
SpecWait == InitWait /\ [][NextWait]_vars

(***************************************************************************)
(* C17: the exit status of the wait built-in                               *)
(***************************************************************************)
\* every operand is a positive process ID
AllValid ==
    \A k \in 1..Len(operands) :
        parse(operands[k]).t = "Ok" /\ parse(operands[k]).pid > 0

\* the job of the process was found exited: it had exited when the built-in
\* was called, or wait_for_subshell has reported that it exited
JobExited(pid) ==
    \/ jobs_before[pid].t = "Exited"
    \/ \E i \in 1..Len(waits) :
          /\ waits[i].t = "Ok"
          /\ waits[i].pid = pid
          /\ waits[i].status.t = "Exited"

\* the operand number k names a job: the process had a job when the
\* built-in was called and no earlier operand has named it
NamesJob(k) ==
    LET pid == parse(operands[k]).pid
    IN  /\ jobs_before[pid] # NoJob
        /\ \A j \in 1..(k - 1) : parse(operands[j]).pid # pid

\* the exit status of the job that the operand number k names
StatusOfOperand(k) ==
    LET pid == parse(operands[k]).pid
    IN  IF NamesJob(k) /\ JobExited(pid) THEN ExitOf(pid) ELSE 127

\* C17: when the built-in returns, its exit status is 0 if it had no
\* operand; if it had operands, all of them process IDs, the status obtained
\* for each is that of the job it names and the exit status is the one
\* obtained for the last.
C17_LastOperandStatus ==
    wait_pc = "done" =>
        /\ operands = <<>> => wait_result = W_Result(0)
        /\ (operands # <<>> /\ AllValid) =>
              /\ Len(obtained) = Len(operands)
              /\ \A k \in 1..Len(operands) :
                    obtained[k].status = StatusOfOperand(k)
              /\ wait_result = W_Result(StatusOfOperand(Len(operands)))

\* the built-in has waited for two jobs that exited with different exit
\* statuses and has returned the second
C17_Witness ==
    /\ wait_pc = "done"
    /\ operands = <<"1", "2">>
    /\ waits # <<>>
    /\ obtained[1].status = ExitOf(1)
    /\ obtained[2].status = ExitOf(2)
    /\ wait_result = W_Result(ExitOf(2))

(***************************************************************************)
(* C18: a process ID that names no job                                     *)
(***************************************************************************)
\* the built-in is at an operand that is a process ID without a job
AtUnknownProcessId ==
    /\ wait_pc = "wait_for_each_job"
    /\ parse(operands[operand]).t = "Ok"
    /\ parse(operands[operand]).pid > 0
    /\ jobs[parse(operands[operand]).pid] = NoJob

\* C18: the step of the built-in at an operand that is a process ID without
\* a job obtains 127 for the operand, calls no wait_for_subshell, leaves the
\* jobs and the child processes as they are, and returns 127 if the operand
\* is the last.
C18_UnknownProcessId ==
    [][(AtUnknownProcessId
        /\ (wait_pc' # "wait_for_each_job" \/ operand' # operand)) =>
          /\ jobs' = jobs
          /\ children' = children
          /\ waits' = waits
          /\ exit_status' = 127
          /\ obtained' = Append(obtained,
                [pid |-> parse(operands[operand]).pid, found |-> FALSE,
                 status |-> 127])
          /\ IF operand = Len(operands) THEN wait_result' = W_Result(127)
             ELSE wait_pc' = "wait_for_each_job" /\ operand' = operand + 1]_vars

\* the built-in has returned 127 for a process ID that names no job, without
\* waiting, while a child process with that ID runs
C18_Witness ==
    /\ wait_pc = "done"
    /\ operands = <<"1">>
    /\ jobs_before[1] = NoJob
    /\ children[1] = "Running"
    /\ jobs = jobs_before
    /\ jobs[2] = StillAlive
    /\ waits = <<>>
    /\ wait_result = W_Result(127)

(***************************************************************************)
(* C19: the wait for all jobs                                              *)
(***************************************************************************)
\* the last wait_for_subshell failed with ECHILD
NoChild == waits # <<>> /\ waits[Len(waits)].errno = "ECHILD"

\* C19: when the built-in without operands returns, there is no job or
\* wait_for_subshell has failed with ECHILD; no job that had exited is left
\* and no other job has been removed; and if it failed with ECHILD the jobs left have no child process and the
\* status they had when the built-in was called, and they are all the jobs
\* that had not exited then and have not been reported since.
C19_AllJobs ==
    (wait_pc = "done" /\ operands = <<>>) =>
        /\ (is_empty(jobs) \/ NoChild)
        /\ wait_result = W_Result(0)
        /\ \A pid \in Pids :
              /\ jobs[pid].t # "Exited"
              /\ JobExited(pid) => jobs[pid] = NoJob
              /\ (jobs_before[pid] # NoJob /\ jobs[pid] = NoJob)
                 => JobExited(pid)
        /\ NoChild =>
              \A pid \in Pids :
                  /\ jobs[pid] # NoJob =>
                        /\ jobs[pid] = jobs_before[pid]
                        /\ children[pid] = "None"
                  /\ (/\ jobs_before[pid] # NoJob
                      /\ jobs_before[pid].t # "Exited"
                      /\ \A i \in 1..Len(waits) : waits[i].pid # pid)
                     => jobs[pid] = jobs_before[pid]

\* the built-in has returned after ECHILD: the job of a child process that
\* exited is removed and the job that is no child process is left
C19_Witness ==
    /\ wait_pc = "done"
    /\ operands = <<>>
    /\ NoChild
    /\ jobs_before = [pid \in Pids |-> StillAlive]
    /\ jobs[1] = StillAlive
    /\ jobs[2] = NoJob
    /\ Len(waits) = 2
    /\ waits[1].status = Exited(ExitOf(2))

(***************************************************************************)
(* C20: a stopped job                                                      *)
(***************************************************************************)
\* C20: the built-in does not fail on a job whose status is Stopped.
C20_StoppedJobEndsWait ==
    ~(wait_pc = "panic" /\ wait_result.msg = "handle stopped job")

(***************************************************************************)
(* Subshell (yash-env/src/subshell.rs): the parent process that calls      *)
(* start or start_and_wait, and the child process it creates.              *)
(***************************************************************************)
ME == 0
ParentPid == 2
ParentPgid == 1
ChildPid == 3
JobControls == {"None", "Background", "Foreground"}

\* Env::controls_jobs
controls_jobs(monitor_on, is_subshell) == monitor_on /\ ~is_subshell

\* start that applies the job control whether or not the shell controls jobs
start_job_control_unconditional(controls, job_control) == job_control

\* start: env.controls_jobs().then_some(self.job_control).flatten()
start_job_control(controls, job_control) ==
    IF controls THEN job_control ELSE "None"

\* System::setpgid called by the process caller: the process group ID of the
\* child process after the call, pgid being the one it had
setpgid(caller, pid, pgid_arg, pgid) ==
    LET target == IF pid = ME THEN caller ELSE pid
    IN  IF target # ChildPid THEN pgid
        ELSE IF pgid_arg = ME THEN target
        ELSE pgid_arg

\* Env::get_tty: env.tty after the call, or the error
get_tty(tty, exists) ==
    IF tty = "Some" \/ exists THEN [t |-> "Ok", tty |-> "Some", errno |-> ""]
    ELSE [t |-> "Err", tty |-> tty, errno |-> "ENOENT"]

S_Ok(pid, job_control) ==
    [t |-> "Ok", pid |-> pid, job_control |-> job_control, status |-> "",
     errno |-> ""]
S_Status(status) ==
    [t |-> "Ok", pid |-> ChildPid, job_control |-> "", status |-> status,
     errno |-> ""]
S_Err(errno) ==
    [t |-> "Err", pid |-> 0, job_control |-> "", status |-> "",
     errno |-> errno]

InitSubshell ==
    /\ monitor \in BOOLEAN
    /\ in_subshell \in BOOLEAN
    /\ requested \in JobControls
    /\ and_wait \in BOOLEAN
    /\ tty_exists \in BOOLEAN
    /\ env_tty \in {"None", "Some"}
    /\ env_tty = "Some" => tty_exists
    /\ actual = "None"
    /\ sub_pc = "start"
    /\ sub_result = <<>>
    /\ child_pc = "none"
    /\ child_pgid = 0
    /\ foreground \in {0, ParentPgid}
    /\ child_report = "None"
    /\ wait_status = "None"
    /\ OnlySubshell

Others == <<lexerVars, fillVars, sourceVars, inputVars, waitVars, semVars>>

\* start, up to the creation of the child process
Start ==
    /\ sub_pc = "start"
    /\ LET job_control ==
               start_job_control(controls_jobs(monitor, in_subshell), requested)
           tty == IF job_control = "Foreground" THEN get_tty(env_tty, tty_exists)
                  ELSE [t |-> "Ok", tty |-> env_tty, errno |-> ""]
       IN  /\ actual' = job_control
           /\ env_tty' = tty.tty
           /\ \E errno \in {"", "ENOSYS"} :
                 IF tty.t = "Err" \/ errno # ""
                 THEN /\ sub_pc' = "returned"
                      /\ sub_result' = S_Err(IF tty.t = "Err" THEN tty.errno
                                             ELSE errno)
                      /\ UNCHANGED <<child_pc, child_pgid>>
                 ELSE /\ sub_pc' = "finishing"
                      /\ child_pc' = "start"
                      /\ child_pgid' = ParentPgid
                      /\ UNCHANGED sub_result
    /\ UNCHANGED <<monitor, in_subshell, requested, and_wait, tty_exists,
                   foreground, child_report, wait_status>>
    /\ UNCHANGED Others

\* start's finishing that leaves the process group to the child process
start_finishing_without_setpgid(job_control, pgid) == pgid

\* start: the finishing in the parent process
start_finishing(job_control, pgid) ==
    IF job_control # "None" THEN setpgid(ParentPid, ChildPid, ME, pgid)
    ELSE pgid

\* start, the finishing and the return
Finishing ==
    /\ sub_pc = "finishing"
    /\ child_pgid' = start_finishing(actual, child_pgid)
    /\ sub_result' = S_Ok(ChildPid, actual)
    /\ sub_pc' = IF and_wait THEN "waiting" ELSE "returned"
    /\ UNCHANGED <<monitor, in_subshell, requested, and_wait, tty_exists,
                   env_tty, actual, child_pc, foreground, child_report,
                   wait_status>>
    /\ UNCHANGED Others

\* the child process task: setpgid
ChildSetpgid ==
    /\ child_pc = "start"
    /\ IF actual # "None"
       THEN /\ child_pgid' = setpgid(ChildPid, ME, ME, child_pgid)
            /\ child_pc' = IF actual = "Foreground" THEN "tcsetpgrp"
                           ELSE "task"
       ELSE /\ child_pc' = "task"
            /\ UNCHANGED child_pgid
    /\ UNCHANGED <<monitor, in_subshell, requested, and_wait, tty_exists,
                   env_tty, actual, sub_pc, sub_result, foreground,
                   child_report, wait_status>>
    /\ UNCHANGED Others

\* the child process task: getpgrp and tcsetpgrp_with_block
ChildTcsetpgrp ==
    /\ child_pc = "tcsetpgrp"
    /\ foreground' = child_pgid
    /\ child_pc' = "task"
    /\ UNCHANGED <<monitor, in_subshell, requested, and_wait, tty_exists,
                   env_tty, actual, sub_pc, sub_result, child_pgid,
                   child_report, wait_status>>
    /\ UNCHANGED Others

\* the child process, running its task, stops, goes on, exits or is killed
ChildChangesState ==
    /\ \E next \in {"stopped", "task", "exited", "signaled"} :
          /\ \/ child_pc = "task" /\ next # "task"
             \/ child_pc = "stopped" /\ next \in {"task", "signaled"}
          /\ child_pc' = next
          /\ child_report' = IF next = "stopped" THEN "Stopped"
                             ELSE IF next = "task" THEN "Continued"
                             ELSE IF next = "exited" THEN "Exited"
                             ELSE "Signaled"
    /\ UNCHANGED <<monitor, in_subshell, requested, and_wait, tty_exists,
                   env_tty, actual, sub_pc, sub_result, child_pgid,
                   foreground, wait_status>>
    /\ UNCHANGED Others

\* start_and_wait that returns whenever the subshell is stopped
start_and_wait_returns_stopped(status, job_control) ==
    status \in {"Exited", "Signaled", "Stopped"}

\* start_and_wait: the statuses the loop returns
start_and_wait_returns(status, job_control) ==
    \/ status \in {"Exited", "Signaled"}
    \/ status = "Stopped" /\ job_control # "None"

\* start_and_wait: wait_for_subshell returns and the loop returns or goes on
WaitForSubshell ==
    /\ sub_pc = "waiting"
    /\ \E errno \in {"", "ECHILD", "EINTR"} :
          IF errno # ""
          THEN /\ sub_pc' = "returned"
               /\ sub_result' = S_Err(errno)
               /\ UNCHANGED <<child_report, wait_status>>
          ELSE /\ wait_status' = IF child_report = "None" THEN "StillAlive"
                                 ELSE child_report
               /\ child_report' = "None"
               /\ IF start_and_wait_returns(wait_status', sub_result.job_control)
                  THEN /\ sub_pc' = "returned"
                       /\ sub_result' = S_Status(wait_status')
                  ELSE UNCHANGED <<sub_pc, sub_result>>
    /\ UNCHANGED <<monitor, in_subshell, requested, and_wait, tty_exists,
                   env_tty, actual, child_pc, child_pgid, foreground>>
    /\ UNCHANGED Others

NextSubshell ==
    \/ Start
    \/ Finishing
    \/ ChildSetpgid
    \/ ChildTcsetpgrp
    \/ ChildChangesState
    \/ WaitForSubshell
SpecSubshell == InitSubshell /\ [][NextSubshell]_vars

(***************************************************************************)
(* C21: job control only in a shell that controls jobs                     *)
(***************************************************************************)
\* the Monitor option is off or the shell is itself a subshell
NotControllingJobs == ~monitor \/ in_subshell

\* C21: start applies the requested job control when the shell controls
\* jobs.  When the Monitor option is off or the shell is a subshell, the job
\* control start returns is None and the child process is in the process
\* group of the parent, and no step changes the foreground process group or
\* opens the tty.
C21_JobControlOnlyWhenControlling ==
    /\ [](/\ (~NotControllingJobs /\ sub_pc # "start") => actual = requested
          /\ NotControllingJobs =>
                /\ actual = "None"
                /\ (sub_pc \in {"waiting", "returned"} /\ child_pc # "none")
                   => (and_wait \/ sub_result = S_Ok(ChildPid, "None"))
                /\ child_pc # "none" => child_pgid = ParentPgid)
    /\ [][NotControllingJobs =>
             (foreground' = foreground /\ env_tty' = env_tty)]_vars

\* start has returned no job control for a subshell asked to run in the
\* foreground by a shell that is itself a subshell, and the child runs its
\* task in the process group of the parent with the tty unopened
C21_Witness ==
    /\ monitor /\ in_subshell
    /\ requested = "Foreground"
    /\ tty_exists /\ env_tty = "None"
    /\ sub_pc = "returned"
    /\ sub_result = S_Ok(ChildPid, "None")
    /\ child_pc = "task"
    /\ child_pgid = ParentPgid
    /\ foreground = 0

Finished(status) ==
    \/ status \in {"Exited", "Signaled"}
    \/ status = "Stopped" /\ actual # "None"

\* a step of start_and_wait in which wait_for_subshell returns
WaitStep ==
    /\ sub_pc = "waiting"
    /\ child_pc' = child_pc
    /\ \/ sub_pc' # sub_pc
       \/ wait_status' # wait_status
       \/ child_report' # child_report

\* C23: start_and_wait returns the error if start fails; when
\* wait_for_subshell fails it returns the error; when wait_for_subshell
\* returns a status it returns that status if the subshell has finished and
\* waits again if not.
C23_WaitsUntilFinished ==
    /\ []((and_wait /\ sub_pc = "returned") =>
             IF sub_result.t = "Err" THEN sub_result.errno # ""
             ELSE child_pc # "none" /\ Finished(sub_result.status))
    /\ [][WaitStep =>
             IF sub_result'.t = "Err" THEN sub_pc' = "returned"
             ELSE /\ Finished(wait_status') <=> sub_pc' = "returned"
                  /\ sub_pc' = "returned"
                     => sub_result' = S_Status(wait_status')
                  /\ sub_pc' # "returned" => sub_result' = sub_result]_vars

\* start_and_wait has seen the subshell, which is not job-controlled, stopped
\* and goes on waiting
C23_Witness ==
    /\ and_wait
    /\ actual = "None"
    /\ sub_pc = "waiting"
    /\ wait_status = "Stopped"
    /\ child_pc = "stopped"

(***************************************************************************)
(* yash-env/src/semantics.rs: exit statuses, signals and apply_errexit     *)
(***************************************************************************)
MaxFrames == 2

\* c_int, 32 bits wide
c_int_MAX == 2147483647
c_int_MIN == (-c_int_MAX) - 1

SignalOffset == 384
SignalOffsetLow == 128

\* the signal numbers nix::sys::signal::Signal defines
Signals == 1..31

Sem_Ok(v) == [t |-> "Ok", v |-> v]
Sem_Err == [t |-> "Err", v |-> 0]
Sem_Panic == [t |-> "Panic", v |-> 0]

\* Signal::try_from(c_int)
signal_try_from_c_int(n) == IF n \in Signals THEN Sem_Ok(n) ELSE Sem_Err

\* a - b for b > 0 in c_int: a build with overflow checks panics when the
\* difference is below c_int_MIN, a build without them wraps around
c_int_sub(a, b, overflow_checks) ==
    IF a >= c_int_MIN + b THEN Sem_Ok(a - b)
    ELSE IF overflow_checks THEN Sem_Panic
    ELSE Sem_Ok(c_int_MAX - ((b - 1) - ((a + c_int_MAX) + 1)))

exit_status_from_signal(signal) == signal + SignalOffset

signal_try_from_bare(status, previous) ==
    IF previous.t = "Ok" THEN previous ELSE signal_try_from_c_int(status)

signal_try_from_low_of(status, difference) ==
    IF difference.t = "Panic" THEN Sem_Panic
    ELSE signal_try_from_bare(status, signal_try_from_c_int(difference.v))

signal_try_from_low(status, previous, overflow_checks) ==
    IF previous.t = "Ok" THEN previous
    ELSE signal_try_from_low_of(status,
             c_int_sub(status, SignalOffsetLow, overflow_checks))

signal_try_from_high_of(status, difference, overflow_checks) ==
    IF difference.t = "Panic" THEN Sem_Panic
    ELSE signal_try_from_low(status, signal_try_from_c_int(difference.v),
                             overflow_checks)

\* impl TryFrom<ExitStatus> for Signal
signal_try_from(status, overflow_checks) ==
    signal_try_from_high_of(status,
        c_int_sub(status, SignalOffset, overflow_checks), overflow_checks)

\* Option<ExitStatus>
OptionNone == <<>>
OptionSome(status) == <<status>>
Options == {OptionNone} \cup {OptionSome(e) : e \in {0, 1, 42}}

Divert(kind, count, status) ==
    [kind |-> kind, count |-> count, exit_status |-> status]
Diverts ==
    {Divert(k, c, OptionNone) : k \in {"Continue", "Break"}, c \in 0..1}
    \cup {Divert(k, 0, o) :
             k \in {"Return", "Interrupt", "Exit", "Abort"}, o \in Options}

ControlContinue == [t |-> "Continue", divert |-> <<>>]
ControlBreak(divert) == [t |-> "Break", divert |-> divert]
Results == {ControlContinue} \cup {ControlBreak(d) : d \in Diverts}

Frames == {"Subshell", "Condition", "Builtin"}
Stacks == UNION {[1..n -> Frames] : n \in 0..MaxFrames}

\* Env::errexit_is_applicable
errexit_is_applicable(env) ==
    env.errexit /\ \A i \in 1..Len(env.stack) : env.stack[i] # "Condition"

apply_errexit_interrupt_always(res, applicable) ==
    ControlBreak(Divert("Exit", 0, res.divert.exit_status))

apply_errexit_interrupt(res, applicable) ==
    IF applicable
    THEN ControlBreak(Divert("Exit", 0, res.divert.exit_status))
    ELSE res

apply_errexit(res, env) ==
    IF res.t = "Break" /\ res.divert.kind = "Interrupt"
    THEN apply_errexit_interrupt(res, errexit_is_applicable(env))
    ELSE res

\* exit statuses around the three forms of a signal's exit status and at the
\* ends of c_int
ExitStatuses ==
    (-2..40) \cup (120..165) \cup (250..260) \cup (380..420)
    \cup {c_int_MAX - 1, c_int_MAX}
    \cup {c_int_MIN + k :
            k \in {0, 1, SignalOffsetLow - 1, SignalOffsetLow,
                   SignalOffsetLow + 1, SignalOffset - 1, SignalOffset,
                   SignalOffset + 1, SignalOffset + 31, SignalOffset + 32}}

InitSem ==
    /\ sem_op = "init"
    /\ sem_arg = <<>>
    /\ sem_result = <<>>
    /\ sem_env \in [errexit : BOOLEAN, stack : Stacks,
                    overflow_checks : BOOLEAN]
    /\ OnlySem

SemOthers ==
    <<lexerVars, fillVars, sourceVars, inputVars, waitVars, subshellVars>>

ApplyErrexit ==
    \E res \in Results :
        /\ sem_op' = "apply_errexit"
        /\ sem_arg' = res
        /\ sem_result' = apply_errexit(res, sem_env)
        /\ UNCHANGED <<sem_env, SemOthers>>

ExitStatusFromSignal ==
    \E signal \in Signals :
        /\ sem_op' = "exit_status_from_signal"
        /\ sem_arg' = signal
        /\ sem_result' = exit_status_from_signal(signal)
        /\ UNCHANGED <<sem_env, SemOthers>>

SignalTryFrom ==
    \E status \in ExitStatuses :
        /\ sem_op' = "signal_try_from"
        /\ sem_arg' = status
        /\ sem_result' = signal_try_from(status, sem_env.overflow_checks)
        /\ UNCHANGED <<sem_env, SemOthers>>

NextSem == ApplyErrexit \/ ExitStatusFromSignal \/ SignalTryFrom

SpecSem == InitSem /\ [][NextSem]_vars

(***************************************************************************)
(* C24: apply_errexit                                                      *)
(***************************************************************************)
\* the ErrExit option is on and the stack holds no Condition frame
ErrexitApplies ==
    /\ sem_env.errexit
    /\ "Condition" \notin {sem_env.stack[i] : i \in 1..Len(sem_env.stack)}

IsInterrupt(res) ==
    res.t = "Break" /\ res.divert.kind = "Interrupt"

\* C24: apply_errexit turns Break(Interrupt(s)) into Break(Exit(s)) with the
\* same s when the ErrExit option is on and the stack holds no Condition
\* frame; it returns every other result, and every result when errexit does
\* not apply, unchanged.
C24_ApplyErrexit ==
    sem_op = "apply_errexit" =>
        IF IsInterrupt(sem_arg) /\ ErrexitApplies
        THEN /\ sem_result.t = "Break"
             /\ sem_result.divert.kind = "Exit"
             /\ sem_result.divert.exit_status = sem_arg.divert.exit_status
        ELSE sem_result = sem_arg

\* Interrupt(Some(42)) is returned unchanged with ErrExit on inside a
\* condition
C24_Witness ==
    /\ sem_op = "apply_errexit"
    /\ sem_env.errexit
    /\ sem_env.stack = <<"Builtin", "Condition">>
    /\ sem_arg = ControlBreak(Divert("Interrupt", 0, OptionSome(42)))
    /\ sem_result = sem_arg

(***************************************************************************)
(* C25: signals and exit statuses                                          *)
(***************************************************************************)
\* the three forms of the exit status of a signal: the signal number plus
\* 384, the lowest 8 bits of that, and the bare signal number
FormsOf(signal) ==
    {signal + SignalOffset, (signal + SignalOffset) % 256, signal}

SignalsOf(status) == {s \in Signals : status \in FormsOf(s)}

\* C25: the exit status of a signal is the signal number plus 384, which is
\* greater than 128; the conversion of an exit status to a signal gives the
\* signal of which the exit status is one of the three forms, and an error
\* for an exit status that is no form of any signal.
C25_SignalRoundTrip ==
    /\ sem_op = "exit_status_from_signal" =>
          /\ sem_result = sem_arg + 384
          /\ sem_result > 128
    /\ sem_op = "signal_try_from" =>
          IF SignalsOf(sem_arg) # {}
          THEN sem_result.t = "Ok" /\ sem_result.v \in SignalsOf(sem_arg)
          ELSE sem_result = Sem_Err

(***************************************************************************)
(* yash-syntax/src/parser/lex.rs: the rewinds of one call of dollar_unit   *)
(***************************************************************************)
\* Lexer::rewind called with the cursor at `from` and the saved index `to`
Rewind(from, to) == [from |-> from, to |-> to]

\* Lexer::arithmetic_expansion, part 3: the rewind when the first `)` is not
\* followed by a second one; k is the cursor after the first `)` and the line
\* continuations that follow it
arithmetic_expansion_rewinds_close(s, i, content, k) ==
    IF content.t # "ok" THEN <<>>
    ELSE IF Peek(s, content.i) # RPAREN THEN <<>>
    ELSE IF Peek(s, k) \in {RPAREN, EOF} THEN <<>>
    ELSE <<Rewind(k, i)>>

arithmetic_expansion_rewinds_content(s, i, content) ==
    arithmetic_expansion_rewinds_close(s, i, content,
                                       line_continuations(s, content.i + 1))

\* Lexer::arithmetic_expansion, part 1: the rewind when the first `(` is not
\* followed by a second one
arithmetic_expansion_rewinds_open(s, i, j) ==
    IF Peek(s, j) # LPAREN THEN <<Rewind(j, i)>>
    ELSE arithmetic_expansion_rewinds_content(s, i,
             text_with_parentheses(s, j + 1, {RPAREN}, EscArith))

\* the rewinds Lexer::arithmetic_expansion makes when called at the cursor i
arithmetic_expansion_rewinds(s, i) ==
    IF Peek(s, i) # LPAREN THEN <<>>
    ELSE arithmetic_expansion_rewinds_open(s, i, line_continuations(s, i + 1))

dollar_unit_rewinds_end_always(s, i, c) == <<Rewind(c.i, i)>>

\* Lexer::dollar_unit: the rewind at its end, after command_substitution has
\* returned c
dollar_unit_rewinds_end(s, i, c) ==
    IF c.t = "none" THEN <<Rewind(c.i, i)>> ELSE <<>>

\* Lexer::dollar_unit, after arithmetic_expansion has returned a and made the
\* rewinds r
dollar_unit_rewinds_after(s, i, a, r) ==
    IF a.t # "unmatched" THEN r
    ELSE r \o dollar_unit_rewinds_end(s, i,
                  command_substitution(s, a.i, a.opening))

\* the rewinds one call of Lexer::dollar_unit at the cursor i makes, in
\* order, without those of the dollar units nested in its content
dollar_unit_rewinds(s, i) ==
    IF Peek(s, i) # DOLLAR THEN <<>>
    ELSE dollar_unit_rewinds_after(s, i, arithmetic_expansion(s, i + 1, i),
                                   arithmetic_expansion_rewinds(s, i + 1))

(***************************************************************************)
(* C26: at most one rewind per `$`                                         *)
(***************************************************************************)
\* every rewind of the sequence moves the cursor backwards, and not before
\* the cursor at
RewindsBackTo(rewinds, at) ==
    \A n \in 1..Len(rewinds) :
        rewinds[n].to < rewinds[n].from /\ rewinds[n].to >= at

\* C26: one call of dollar_unit rewinds the lexer at most once, either in
\* arithmetic_expansion or at its own end, the rewinds of the dollar units
\* nested in its content not counted; the rewind moves the cursor backwards
\* and not before the `$`.  A call that returns nothing leaves the cursor
\* where it was.
C26_OneRewind ==
    op = "dollar_unit" =>
        /\ Len(dollar_unit_rewinds(source, entry)) <= 1
        /\ RewindsBackTo(dollar_unit_rewinds(source, entry), entry)
        /\ result.t = "none" => index = entry
        /\ (result.t = "none" /\ Peek(source, entry) = DOLLAR)
           => dollar_unit_rewinds(source, entry) = <<Rewind(entry + 1, entry)>>

\* arithmetic_expansion has read `((`, the content and one `)`, has rewound
\* to the first `(`, and dollar_unit has returned the command substitution
C26_Witness ==
    /\ op = "dollar_unit"
    /\ Len(dollar_unit_rewinds(source, entry)) = 1
    /\ dollar_unit_rewinds(source, entry)[1].to = entry + 1
    /\ dollar_unit_rewinds(source, entry)[1].from >= entry + 4
    /\ result.t = "ok"
    /\ result.v.k = "CommandSubst"

====
